---- MODULE Spec2Model ----
(***************************************************************************)
(* Verification model of the Aevion Shield workers:                        *)
(*   - ShieldConsensus Durable Object and the consensus router             *)
(*     (cloudflare-workers/vetproof-consensus.js)                          *)
(*   - the queue-driven five-stage pipeline (same file)                    *)
(*   - the VetProofPipeline durable workflow                               *)
(*     (cloudflare-workers/vetproof-workflow.js)                           *)
(*   - ProofAgent.verifyClaimInternal (cloudflare-workers/proof-agent.js)  *)
(*                                                                         *)
(* Numbers.  Confidences are held in hundredths (0.75 is 75).  Every       *)
(* comparison the code makes on doubles is restated on integers by         *)
(* cross-multiplication; for the values used here the fractions are either *)
(* exactly representable (0.25, 0.75, 1.0) or far from the threshold, so   *)
(* the integer comparison agrees with the IEEE-754 one.                    *)
(***************************************************************************)
EXTENDS Integers, Sequences, FiniteSets, TLC

(***************************************************************************)
(* Bounds and input sets                                                   *)
(***************************************************************************)
MaxSubmits == 3          \* vote submissions explored on the session of c1
MaxPairSubmits == 2      \* vote submissions explored per session, two sessions
MaxClock == 1            \* the wall clock takes the values 0..MaxClock
MaxFailures == 1         \* thrown exceptions (failed attempts) explored per run
MaxPipelineSubmits == 1  \* POST /pipeline/submit calls explored per claim id
MaxWfFailures == 3       \* failed step attempts explored per workflow instance
MaxVerifications == 2    \* ProofAgent verifications explored
MaxWfClock == 3          \* the wall clock of the workflow runs takes the values 0..MaxWfClock
MaxReviewCalls == 2      \* calls of /v1/claims/approve and /reject explored
MaxOpenSubmits == 2      \* vote submissions with unchecked contents explored
MaxLateSubmits == 2      \* submitVote calls explored on a session with a pipeline
MaxFourSubmits == 4      \* vote submissions explored on a session of four models
MaxGwRequests == 12     \* requests of one address to the gateway explored
MaxFleetChecks == 3     \* fleet health checks explored
MaxAgentRuns == 3       \* verifications started at the agent's entry points
MaxAgentClock == 2      \* the latest time of the agent's clock

Claims == {"c1", "c2"}
ModelIds == {"m1", "m2", "m3"}
SubmitVerdicts == {"VERIFIED", "UNVERIFIED"}
Confidences == {25, 75, 100}
PairConfidences == {75, 100}

HaltStdDev == 25         \* the 0.25 of `confidenceStdDev > 0.25`, in hundredths
NoVerdict == "-"

VARIABLES
  votes,        \* ShieldConsensus: table votes, per claim, in rowid order
  consensus,    \* ShieldConsensus: table state, row 'consensus', per claim
  voters,       \* per claim: the model ids submitVote was called with
  submits,      \* per claim: number of submitVote calls so far
  lastResult,   \* per claim: what the last submitVote returned
  r2Claim,      \* PROOF_STORAGE, object proofs/<claim_id>.json, per claim
  kvClaim,      \* VERIFICATION_CACHE, key <claim_id>, per claim
  verification_proofs, \* AUDIT_DB table verification_proofs: rows per claim
  audit_events, \* AUDIT_DB table audit_events, in insertion order
  now,          \* the wall clock read by new Date() / Date.now()
  failures,     \* number of exceptions thrown so far
  queue,        \* VETPROOF_QUEUE: messages waiting for delivery (a bag)
  handling,     \* messages whose process<Stage> returned, audit insert pending
  pipelineSubmits, \* per claim: number of POST /pipeline/submit calls
  wf,           \* VETPROOF_WORKFLOW: per instance id (= claim id), its checkpoint
  r2Workflow,   \* PROOF_STORAGE, objects proofs/<claim_id>/<proofHash>.json
  kvProof,      \* VERIFICATION_CACHE, key proof:<claim_id>, per claim
  vectorize,    \* VECTORIZE: the ids of the vectors stored
  agentState,   \* ProofAgent: the agent_state row (verifications_count)
  verification_history,  \* ProofAgent: table verification_history
  agentProofs,  \* ProofAgent: the results stored under proof:<id> / proofs/<date>/<id>.json
  hitl,         \* HITL_WORKFLOW: per instance (one per claim id), its checkpoint
  hitlEvents,   \* per instance: the events sent to it and not yet consumed
  kvPending,    \* VERIFICATION_CACHE, key hitl:pending:<claimId>, per claim
  pendingIndex, \* VERIFICATION_CACHE, key hitl:pending:index, parsed
  r2Hitl,       \* PROOF_STORAGE, objects hitl/<claimId>/<id>.json
  kvHitlProof,  \* VERIFICATION_CACHE, key proof:hitl:<claimId>, per claim
  reviewCalls,  \* the responses of /v1/claims/approve and /reject, in order, each with
                \* whether the instance had its decision when the call came
  gwUsage,      \* RATE_LIMITS, key anon:<ip>:<today>, of one address
  gwInflight,   \* revenue gateway: per request in flight, the usage it has read
  gwServed,     \* revenue gateway: demo answers given to the address today
  gwResponses,  \* revenue gateway: the responses given (status and header names)
  fleetFailures, \* VERIFICATION_CACHE, keys fleet:failures:<name>, parsed ('0' if absent)
  fleetRuns,    \* fleet monitor: per health check in progress, its position and locals
  fleetStreak,  \* per worker: the failed health checks since its last non-failing one
  fleetLog,     \* per counted failure: the worker, its streak, and whether an alert was pushed
  fleetChecks,  \* the number of health checks started
  kvAlerts,     \* VERIFICATION_CACHE, keys fleet:pending_alerts and fleet:alerts
  hubSent,      \* notification hub: the alerts handed to processAlert, with their channels
  hubChecked,   \* whether the hub's cron ran since pending alerts were last stored
  coll,         \* COLLECTIVE_WORKFLOW: the instance, its position and step results
  collShards,   \* VECTORIZE: the knowledge shards upserted by store-shards
  collProof,    \* VERIFICATION_CACHE, key collective:proof:<collectiveId>
  regCheck,     \* runRegulationCheck: its position, its updates, the domains examined
  regVersion,   \* VERIFICATION_CACHE, keys regulation:version:<domain>
  regLatest,    \* VERIFICATION_CACHE, key regulation:updates:latest, parsed
  agentRuns,    \* ProofAgent: per verifyClaimInternal call in progress, the state it captured
  agentServed,  \* per verification recorded: its entry point, and whether the payment check passed
  agentResponses, \* ProofAgent: the 402 responses given
  scheduled_tasks, \* ProofAgent: table scheduled_tasks, per task id
  agentAlarm,   \* ProofAgent: the alarm of the Durable Object
  alarmRun,     \* ProofAgent: the alarm handler in progress, its tasks still to run
  agentNow      \* the wall clock of the ProofAgent

consVars == <<votes, consensus, voters, submits, lastResult>>
storeVars == <<r2Claim, kvClaim, verification_proofs>>
queueVars == <<queue, handling, pipelineSubmits>>
wfVars == <<wf, r2Workflow, kvProof, vectorize>>
agentVars == <<agentState, verification_history, agentProofs>>
hitlVars == <<hitl, hitlEvents, kvPending, pendingIndex, r2Hitl, kvHitlProof, reviewCalls>>
gwVars == <<gwUsage, gwInflight, gwServed, gwResponses>>
fleetVars == <<fleetFailures, fleetRuns, fleetStreak, fleetLog, fleetChecks, kvAlerts,
               hubSent, hubChecked>>
collVars == <<coll, collShards, collProof>>
regVars == <<regCheck, regVersion, regLatest>>
runVars == <<agentRuns, agentServed, agentResponses>>
taskVars == <<scheduled_tasks, agentAlarm, alarmRun, agentNow>>
extVars == <<gwVars, fleetVars, collVars, regVars, runVars, taskVars>>
baseVars == <<consVars, storeVars, audit_events, now, failures, queueVars, wfVars,
              agentVars, hitlVars>>

(***************************************************************************)
(* Helpers                                                                 *)
(***************************************************************************)
RECURSIVE SumConf(_)
SumConf(s) == IF s = <<>> THEN 0 ELSE Head(s).confidence + SumConf(Tail(s))

RECURSIVE SumSqConf(_)
SumSqConf(s) ==
  IF s = <<>> THEN 0
  ELSE Head(s).confidence * Head(s).confidence + SumSqConf(Tail(s))

CountVerdict(s, v) == Cardinality({i \in 1..Len(s) : s[i].verdict = v})

RemoveModel(s, m) == SelectSeq(s, LAMBDA r : r.model_id # m)

\* n^2 * (population variance of the confidences), in hundredths squared
SqDev(s) == Len(s) * SumSqConf(s) - SumConf(s) * SumConf(s)

\* `SELECT * FROM votes ORDER BY confidence DESC`: every ordering of the rows
\* that is non-increasing in confidence.  SQLite leaves the order of rows with
\* equal sort keys unspecified, so each such ordering is a possible result.
OrderByConfidenceDesc(rows) ==
  LET n == Len(rows)
      perms == {p \in [1..n -> 1..n] : \A i, j \in 1..n : i # j => p[i] # p[j]}
  IN {[i \in 1..n |-> rows[p[i]]] : p \in
        {q \in perms : \A i \in 1..n : \A j \in 1..n :
            i < j => rows[q[i]].confidence >= rows[q[j]].confidence}}

(***************************************************************************)
(* ShieldConsensus.calculateConsensus                                      *)
(***************************************************************************)
PendingConsensus ==
  [status |-> "PENDING", verdict |-> NoVerdict, majority_count |-> 0,
   total_votes |-> 0, total_confidence |-> 0, sq_dev |-> 0,
   halt_triggered |-> FALSE, fault_tolerance |-> 0]

NoConsensusRow == [PendingConsensus EXCEPT !.status = "NONE"]

\* Object.entries(verdictCounts).sort(([,a],[,b]) => b - a)[0]: the sort is
\* stable and the keys are in insertion order, so the winner is the verdict
\* with the highest count whose first vote comes earliest in the array.
majorityVerdict(vs) ==
  LET best == CHOOSE i \in 1..Len(vs) :
        /\ \A j \in 1..Len(vs) :
              CountVerdict(vs, vs[j].verdict) <= CountVerdict(vs, vs[i].verdict)
        /\ \A j \in 1..(i-1) :
              CountVerdict(vs, vs[j].verdict) < CountVerdict(vs, vs[i].verdict)
  IN vs[best].verdict

\* Mutant of hasConsensus: the threshold is 2/3 itself.
hasConsensus_TwoThirds(majorityCount, n) == 3 * majorityCount >= 2 * n

\* majorityPct >= bftThreshold, i.e. count/n >= (2n+2)/(3n)
hasConsensus(majorityCount, n) == 3 * majorityCount >= 2 * n + 2

\* Mutant of haltTriggered: the deviation is taken from zero, not from the mean.
haltTriggered_Uncentred(vs) ==
  Len(vs) * SumSqConf(vs) > HaltStdDev * HaltStdDev * Len(vs) * Len(vs)

\* confidenceStdDev > 0.25
haltTriggered(vs) == SqDev(vs) > HaltStdDev * HaltStdDev * Len(vs) * Len(vs)

calculateConsensus(vs) ==
  IF Len(vs) = 0 THEN PendingConsensus
  ELSE LET n == Len(vs)
           mv == majorityVerdict(vs)
           mc == CountVerdict(vs, mv)
       IN [status |-> IF hasConsensus(mc, n) THEN "CONSENSUS" ELSE "DISAGREEMENT",
           verdict |-> mv,
           majority_count |-> mc,
           total_votes |-> n,
           total_confidence |-> SumConf(vs),
           sq_dev |-> SqDev(vs),
           halt_triggered |-> haltTriggered(vs),
           fault_tolerance |-> (n - 1) \div 3]

(***************************************************************************)
(* ShieldConsensus.submitVote                                              *)
(***************************************************************************)
\* Mutant of upsertVote: a plain INSERT that keeps the model's earlier row.
upsertVote_NoReplace(rows, modelId, vote) ==
  Append(rows, [model_id |-> modelId, verdict |-> vote.verdict,
                confidence |-> vote.confidence])

\* INSERT OR REPLACE INTO votes: the row of the model is deleted and the new
\* row gets a fresh rowid, i.e. goes to the end of the table.
upsertVote(rows, modelId, vote) ==
  Append(RemoveModel(rows, modelId),
         [model_id |-> modelId, verdict |-> vote.verdict,
          confidence |-> vote.confidence])

submitVote(c, modelId, vote) ==
  LET rows == upsertVote(votes[c], modelId, vote)
  IN \E allVotes \in OrderByConfidenceDesc(rows) :
       LET cons == calculateConsensus(allVotes)
       IN /\ votes' = [votes EXCEPT ![c] = rows]
          /\ consensus' = [consensus EXCEPT ![c] = cons]
          /\ lastResult' = [lastResult EXCEPT ![c] =
                 [total_votes |-> Len(allVotes), consensus |-> cons,
                  votes |-> allVotes]]
          /\ voters' = [voters EXCEPT ![c] = @ \cup {modelId}]
          /\ submits' = [submits EXCEPT ![c] = @ + 1]

\* ShieldConsensus.getState
getState(c) ==
  [votes |-> votes[c], consensus |-> consensus[c], total_votes |-> Len(votes[c])]

ConsInit ==
  /\ votes = [c \in Claims |-> <<>>]
  /\ consensus = [c \in Claims |-> NoConsensusRow]
  /\ voters = [c \in Claims |-> {}]
  /\ submits = [c \in Claims |-> 0]
  /\ lastResult = [c \in Claims |->
        [total_votes |-> 0, consensus |-> NoConsensusRow, votes |-> <<>>]]

(***************************************************************************)
(* JSON texts and hashes                                                   *)
(* A JSON text is the indentation it was written with and its members in   *)
(* key order (members whose value is undefined are not written).  SHA-256  *)
(* is taken to be collision free: a digest stands for the text it was      *)
(* computed from.                                                          *)
(***************************************************************************)
JSON_stringify(obj, indent) == [indent |-> indent, members |-> obj]
JSON_parse(text) == text.members
sha256(text) == [algo |-> "sha256", text |-> text]
Without(obj, key) == [k \in (DOMAIN obj) \ {key} |-> obj[k]]
Has(obj, key) == key \in DOMAIN obj

NoObject == JSON_stringify([absent |-> TRUE], 0)

\* What a holder of a stored proof record recomputes: the SHA-256 of the
\* record with its proof_hash member removed.
RecomputedHash(text) ==
  sha256(JSON_stringify(Without(JSON_parse(text), "proof_hash"), 0))

StoreInit ==
  /\ r2Claim = [c \in Claims |-> NoObject]
  /\ kvClaim = [c \in Claims |-> NoObject]
  /\ verification_proofs = [c \in Claims |-> 0]
  /\ audit_events = <<>>
  /\ now = 0
  /\ failures = 0

(***************************************************************************)
(* handleConsensusVote: POST /consensus/vote                               *)
(* The Durable Object runs submitVote to completion (it has no await), so  *)
(* concurrent submissions to one session are a serial order of submitVote  *)
(* calls; the handler then archives a CONSENSUS result.                    *)
(***************************************************************************)
handleConsensusVote(c, modelId, vote) ==
  /\ submitVote(c, modelId, vote)
  /\ IF lastResult'[c].consensus.status = "CONSENSUS"
     THEN /\ r2Claim' = [r2Claim EXCEPT ![c] =
                 JSON_stringify([claim_id |-> c,
                                 consensus |-> lastResult'[c].consensus,
                                 votes |-> lastResult'[c].votes,
                                 archived_at |-> now], 0)]
          /\ kvClaim' = [kvClaim EXCEPT ![c] =
                 JSON_stringify(lastResult'[c].consensus, 0)]
          /\ verification_proofs' = [verification_proofs EXCEPT ![c] = @ + 1]
     ELSE UNCHANGED storeVars

\* handleConsensusState: GET /consensus/state.  The cache entry of the claim
\* is answered when there is one, the Durable Object is asked otherwise.
handleConsensusState(c) ==
  IF kvClaim[c] # NoObject
  THEN [cached |-> TRUE, consensus |-> JSON_parse(kvClaim[c])]
  ELSE [cached |-> FALSE, consensus |-> getState(c).consensus,
        votes |-> getState(c).votes, total_votes |-> getState(c).total_votes]

(***************************************************************************)
(* The queue pipeline: handlePipelineSubmit, queue(batch), process<Stage>  *)
(***************************************************************************)
Stages == <<"SANITIZE", "GENERATE", "VERIFY", "DETECT", "SIGN">>
StageSet == {Stages[i] : i \in 1..Len(Stages)}
StageIndex(st) == CHOOSE i \in 1..Len(Stages) : Stages[i] = st

Messages == [claim_id : Claims, stage : StageSet, submitted_at : 0..MaxClock]

\* event_type of the consumer's audit row: `pipeline_${stage.toLowerCase()}`
StageEvent(st) ==
  CASE st = "SANITIZE" -> "pipeline_sanitize"
    [] st = "GENERATE" -> "pipeline_generate"
    [] st = "VERIFY" -> "pipeline_verify"
    [] st = "DETECT" -> "pipeline_detect"
    [] st = "SIGN" -> "pipeline_sign"
SubmittedEvent == "pipeline_submitted"

\* the payload a message of a stage carries: the submitted fields plus what
\* the earlier stages added (model responses are opaque)
PayloadFields(st) ==
  {"claim_text", "evidence", "disability_codes", "submitted_at"}
    \cup (IF StageIndex(st) > 1 THEN {"sanitized", "sanitize_result"} ELSE {})
    \cup (IF StageIndex(st) > 2 THEN {"analysis"} ELSE {})
    \cup (IF StageIndex(st) > 3 THEN {"verified"} ELSE {})
    \cup (IF StageIndex(st) > 4 THEN {"detection"} ELSE {})

Payload(m) == [fields |-> PayloadFields(m.stage), submitted_at |-> m.submitted_at]

Send(q, m) == [q EXCEPT ![m] = @ + 1]
Take(q, m) == [q EXCEPT ![m] = @ - 1]
NextMessage(m) == [m EXCEPT !.stage = Stages[StageIndex(m.stage) + 1]]

QueueInit ==
  /\ queue = [m \in Messages |-> 0]
  /\ handling = [m \in Messages |-> 0]
  /\ pipelineSubmits = [c \in Claims |-> 0]

\* handlePipelineSubmit: queue the SANITIZE message, then the audit row
handlePipelineSubmit(c) ==
  /\ pipelineSubmits[c] < MaxPipelineSubmits
  /\ pipelineSubmits' = [pipelineSubmits EXCEPT ![c] = @ + 1]
  /\ queue' = Send(queue, [claim_id |-> c, stage |-> "SANITIZE", submitted_at |-> now])
  /\ audit_events' = Append(audit_events,
        [event_type |-> SubmittedEvent, claim_id |-> c])
  /\ UNCHANGED <<consVars, storeVars, now, failures, handling, wfVars, agentVars, hitlVars, extVars>>

\* the vote processVerify submits on behalf of the Workers AI model
WorkersAiModel == "workers-ai-llama-3.1-8b"
WorkersAiVote == [verdict |-> "VERIFIED", confidence |-> 75]

\* processSign: the hash is taken over {claim_id, payload, signed_at}; the
\* stored object is a different record, with a second reading of the clock.
SignedContent(m, t) ==
  JSON_stringify([claim_id |-> m.claim_id, payload |-> Payload(m), signed_at |-> t], 0)

SignedObject(m, proofHash, t) ==
  JSON_stringify([claim_id |-> m.claim_id, proof_hash |-> proofHash,
                  pipeline_complete |-> TRUE, stages_completed |-> Stages,
                  final_payload |-> Payload(m), signed_at |-> t], 0)

SignedCacheEntry(proofHash, t) ==
  JSON_stringify([status |-> "COMPLETE", proof_hash |-> proofHash,
                  completed_at |-> t], 0)

\* the clock may advance while the digest is awaited
LaterTimes == {t \in now..(now + 1) : t <= MaxClock}

processSign(m, cacheOk) ==
  \E t2 \in LaterTimes :
    LET proofHash == sha256(SignedContent(m, now))
    IN /\ r2Claim' = [r2Claim EXCEPT ![m.claim_id] = SignedObject(m, proofHash, t2)]
       /\ kvClaim' = IF cacheOk
                     THEN [kvClaim EXCEPT ![m.claim_id] = SignedCacheEntry(proofHash, t2)]
                     ELSE kvClaim
       /\ now' = t2
       /\ UNCHANGED <<consVars, verification_proofs>>

\* processSanitize / processGenerate / processDetect: one model call, then
\* the message of the next stage is queued
processAndForward(m) ==
  /\ queue' = Send(Take(queue, m), NextMessage(m))
  /\ UNCHANGED <<consVars, storeVars, now>>

processVerify(m) ==
  /\ submitVote(m.claim_id, WorkersAiModel, WorkersAiVote)
  /\ queue' = Send(Take(queue, m), NextMessage(m))
  /\ UNCHANGED <<storeVars, now>>

\* queue(batch), first half: the message is delivered and process<Stage> returns
ProcessStage(m) ==
  /\ queue[m] > 0
  /\ CASE m.stage = "VERIFY" -> processVerify(m)
       [] m.stage = "SIGN" -> processSign(m, TRUE) /\ queue' = Take(queue, m)
       [] OTHER -> processAndForward(m)
  /\ handling' = Send(handling, m)
  /\ UNCHANGED <<audit_events, failures, pipelineSubmits, wfVars, agentVars, hitlVars, extVars>>

\* queue(batch): process<Stage> throws before it has changed anything (the
\* model call or the first write fails); message.retry() leaves it queued
ProcessThrows(m) ==
  /\ queue[m] > 0
  /\ failures < MaxFailures
  /\ failures' = failures + 1
  /\ UNCHANGED <<consVars, storeVars, audit_events, now, queueVars, wfVars, agentVars, hitlVars, extVars>>

\* queue(batch): processSign has written the proof object and the cache write
\* throws; message.retry() leaves the message queued
ProcessSignCacheThrows(m) ==
  /\ queue[m] > 0
  /\ m.stage = "SIGN"
  /\ failures < MaxFailures
  /\ processSign(m, FALSE)
  /\ failures' = failures + 1
  /\ UNCHANGED <<audit_events, queueVars, wfVars, agentVars, hitlVars, extVars>>

\* queue(batch), second half: the audit row is inserted and the message acked
AuditStage(m) ==
  /\ handling[m] > 0
  /\ audit_events' = Append(audit_events,
        [event_type |-> StageEvent(m.stage), claim_id |-> m.claim_id])
  /\ handling' = Take(handling, m)
  /\ UNCHANGED <<consVars, storeVars, now, failures, queue, pipelineSubmits, wfVars, agentVars, hitlVars, extVars>>

\* queue(batch), second half: the audit insert throws; message.retry()
AuditThrows(m) ==
  /\ handling[m] > 0
  /\ failures < MaxFailures
  /\ failures' = failures + 1
  /\ handling' = Take(handling, m)
  /\ queue' = Send(queue, m)
  /\ UNCHANGED <<consVars, storeVars, audit_events, now, pipelineSubmits, wfVars, agentVars, hitlVars, extVars>>

(***************************************************************************)
(* VetProofPipeline.run: the durable workflow                              *)
(* step.do persists the value a step's callback returns and never runs a   *)
(* completed step again; a callback that throws is retried, after a delay, *)
(* until the step's retry limit is used up, and then the instance errors.  *)
(***************************************************************************)
WfSteps == <<"sanitize-pii", "embed-evidence", "search-similar-evidence",
             "shield-consensus-verify", "hallucination-detect", "sign-and-archive">>

\* retries: { limit: ... } of each step.do
RetryLimit(step) ==
  CASE step = "sanitize-pii" -> 2
    [] step = "embed-evidence" -> 3
    [] step = "search-similar-evidence" -> 2
    [] step = "shield-consensus-verify" -> 3
    [] step = "hallucination-detect" -> 2
    [] step = "sign-and-archive" -> 2

\* the models of the verify step, with their weights in tenths
WfModels == <<[name |-> "llama-3.1-8b", weight |-> 10],
              [name |-> "qwen-14b", weight |-> 12]>>

WfVerdicts == {"VERIFIED", "UNVERIFIED"}
Similarities == {30, 90}       \* claim-evidence cosine similarity, hundredths
SimilarCounts == {0, 1}        \* number of similar prior claims found
NoOutput == [none |-> TRUE]
Opt(defined, rec) == IF defined THEN rec ELSE <<>>

\* what one model call of the verify step can yield: a rejected promise or an
\* unparsable answer (parsed = null), or a parsed verdict with a confidence
ModelAnswers ==
  {[parsed |-> FALSE, verdict |-> NoVerdict, confidence |-> 0]} \cup
  {[parsed |-> TRUE, verdict |-> v, confidence |-> k] :
      v \in WfVerdicts, k \in Confidences}

RECURSIVE SumWeight(_)
SumWeight(s) == IF s = <<>> THEN 0 ELSE Head(s).weight + SumWeight(Tail(s))

RECURSIVE SumWeightedConf(_)
SumWeightedConf(s) ==
  IF s = <<>> THEN 0
  ELSE Head(s).confidence * Head(s).weight + SumWeightedConf(Tail(s))

VerdictWeight(s, v) ==
  SumWeight(SelectSeq(s, LAMBDA x : x.verdict = v))

\* `for ... if (weight > maxWeight)`: the heaviest verdict, the one inserted
\* first among equals
wfMajorityVerdict(s) ==
  LET best == CHOOSE i \in 1..Len(s) :
        /\ \A j \in 1..Len(s) : VerdictWeight(s, s[j].verdict) <= VerdictWeight(s, s[i].verdict)
        /\ \A j \in 1..(i-1) : VerdictWeight(s, s[j].verdict) < VerdictWeight(s, s[i].verdict)
  IN s[best].verdict

\* agreementRatio >= bftThreshold, with bftThreshold = 2 / 3
wfConsensusReached(maxWeight, totalWeight) == 3 * maxWeight >= 2 * totalWeight

\* stdDev > 0.25 over the confidences of the successful votes
wfConstitutionalHalt(s) == SqDev(s) > 25 * 25 * Len(s) * Len(s)

\* the value the shield-consensus-verify callback returns
verifyStep(answers) ==
  LET successfulVotes ==
        SelectSeq([i \in 1..Len(WfModels) |->
                     [model |-> WfModels[i].name, weight |-> WfModels[i].weight,
                      parsed |-> answers[i].parsed, verdict |-> answers[i].verdict,
                      confidence |-> answers[i].confidence]],
                  LAMBDA x : x.parsed)
      failedVotes == Len(WfModels) - Len(successfulVotes)
  IN IF Len(successfulVotes) = 0
     THEN [consensus |-> "NO_QUORUM", votes |-> <<>>, failed_models |-> failedVotes]
     ELSE LET totalWeight == SumWeight(successfulVotes)
              mv == wfMajorityVerdict(successfulVotes)
              maxWeight == VerdictWeight(successfulVotes, mv)
              reached == wfConsensusReached(maxWeight, totalWeight)
          IN [consensus |-> IF reached THEN mv ELSE "NO_CONSENSUS",
              consensus_reached |-> reached,
              agreement_ratio |-> <<maxWeight, totalWeight>>,
              weighted_confidence |-> <<SumWeightedConf(successfulVotes), totalWeight>>,
              sq_dev |-> SqDev(successfulVotes),
              constitutional_halt |-> wfConstitutionalHalt(successfulVotes),
              votes |-> [i \in 1..Len(successfulVotes) |->
                            [model |-> successfulVotes[i].model,
                             verdict |-> successfulVotes[i].verdict,
                             confidence |-> successfulVotes[i].confidence]],
              failed_models |-> failedVotes]

\* JavaScript truthiness of a member that may be missing (undefined)
Truthy(obj, key) == Has(obj, key) /\ obj[key]

\* Mutant of detectStep: the halt is required by the flag count alone.
detectStep_FlagsOnly(verification, embeddings) ==
  LET checks ==
        [confidence_anomaly |-> Truthy(verification, "constitutional_halt"),
         no_consensus |-> ~Truthy(verification, "consensus_reached"),
         low_confidence |->
            /\ Has(verification, "weighted_confidence")
            /\ verification.weighted_confidence[1] < 50 * verification.weighted_confidence[2],
         high_disagreement |->
            /\ Has(verification, "sq_dev")
            /\ verification.sq_dev > 30 * 30 * Len(verification.votes) * Len(verification.votes),
         low_evidence_match |-> embeddings.claim_evidence_similarity < 40]
      flagCount == Cardinality({k \in DOMAIN checks : checks[k]})
      trust == IF 100 - flagCount * 20 > 0 THEN 100 - flagCount * 20 ELSE 0
  IN [checks |-> checks, flag_count |-> flagCount, trust_score |-> trust,
      halt_required |-> flagCount >= 3]

\* the value the hallucination-detect callback returns
detectStep(verification, embeddings) ==
  LET checks ==
        [confidence_anomaly |-> Truthy(verification, "constitutional_halt"),
         no_consensus |-> ~Truthy(verification, "consensus_reached"),
         low_confidence |->
            /\ Has(verification, "weighted_confidence")
            /\ verification.weighted_confidence[1] < 50 * verification.weighted_confidence[2],
         high_disagreement |->
            /\ Has(verification, "sq_dev")
            /\ verification.sq_dev > 30 * 30 * Len(verification.votes) * Len(verification.votes),
         low_evidence_match |-> embeddings.claim_evidence_similarity < 40]
      flagCount == Cardinality({k \in DOMAIN checks : checks[k]})
      trust == IF 100 - flagCount * 20 > 0 THEN 100 - flagCount * 20 ELSE 0
  IN [checks |-> checks, flag_count |-> flagCount, trust_score |-> trust]
       \* halt_required: flagCount >= 3 || verification.constitutional_halt,
       \* which is undefined when the first is false and the second is missing
       @@ Opt(flagCount >= 3 \/ Has(verification, "constitutional_halt"),
              [halt_required |->
                  flagCount >= 3 \/ Truthy(verification, "constitutional_halt")])

\* the proofBundle of sign-and-archive, before proof_hash is added
proofBundle(c, w, t) ==
  LET halt == Truthy(w.detection, "halt_required")
      v == w.verification
  IN [claim_id |-> c,
      pipeline_version |-> "2.0.0",
      steps |->
        [sanitize |-> [has_pii |-> w.sanitized.has_pii,
                       pii_types |-> w.sanitized.pii_types,
                       original_hash |-> w.sanitized.original_hash],
         embed |-> [similarity |-> w.embeddings.claim_evidence_similarity,
                    vectors_stored |-> TRUE],
         search |-> [similar_claims_found |-> w.similarEvidence.similar_claims],
         verify |-> [consensus |-> v.consensus, model_count |-> Len(v.votes)]
                      @@ Opt(Has(v, "weighted_confidence"),
                             [confidence |-> v.weighted_confidence])
                      @@ Opt(Has(v, "agreement_ratio"),
                             [agreement_ratio |-> v.agreement_ratio])
                      @@ Opt(Has(v, "constitutional_halt"),
                             [constitutional_halt |-> v.constitutional_halt]),
         detect |-> [trust_score |-> w.detection.trust_score,
                     flags |-> w.detection.flag_count]
                      @@ Opt(Has(w.detection, "halt_required"),
                             [halt_required |-> w.detection.halt_required])],
      verdict |-> IF halt THEN "HALTED_FOR_REVIEW" ELSE v.consensus,
      trust_score |-> w.detection.trust_score,
      timestamp |-> t,
      duration_ms |-> t - w.startTime]
     @@ Opt(halt \/ Has(v, "weighted_confidence"),
            [final_confidence |-> IF halt THEN <<0, 1>> ELSE v.weighted_confidence])

\* proofBundle.proof_hash = await sha256(JSON.stringify(proofBundle))
signedBundle(bundle) ==
  bundle @@ [proof_hash |-> sha256(JSON_stringify(bundle, 0))]

R2Put(store, key, body) ==
  {o \in store : o.key # key} \cup {[key |-> key, body |-> body]}

WfIdle ==
  [status |-> "idle", step |-> 1, attempts |-> 0, notBefore |-> 0, failed |-> 0,
   startTime |-> 0, sanitized |-> NoOutput, embeddings |-> NoOutput,
   similarEvidence |-> NoOutput, verification |-> NoOutput,
   detection |-> NoOutput, proof |-> NoOutput]

WfInit ==
  /\ wf = [c \in Claims |-> WfIdle]
  /\ r2Workflow = {}
  /\ kvProof = [c \in Claims |-> NoObject]
  /\ vectorize = {}

\* handleSubmit: env.VETPROOF_WORKFLOW.create({ id: claim_id, params: body })
handleSubmit(c) ==
  /\ wf[c].status = "idle"
  /\ wf' = [wf EXCEPT ![c].status = "running", ![c].startTime = now]
  /\ UNCHANGED <<consVars, storeVars, audit_events, now, failures, queueVars,
                 r2Workflow, kvProof, vectorize, agentVars, hitlVars, extVars>>

AtStep(c, name) ==
  /\ wf[c].status = "running"
  /\ WfSteps[wf[c].step] = name
  /\ now >= wf[c].notBefore

\* the callback returned: its value is persisted and the next step is due
StepDone(w, field, value) ==
  [[w EXCEPT !.step = @ + 1, !.attempts = 0, !.notBefore = 0] EXCEPT ![field] = value]

\* the callback threw: a retry after the step's delay, or the instance errors
StepFailed(w) ==
  IF w.attempts < RetryLimit(WfSteps[w.step])
  THEN [w EXCEPT !.attempts = @ + 1, !.notBefore = now + 1, !.failed = @ + 1]
  ELSE [w EXCEPT !.status = "errored", !.failed = @ + 1]

otherVars == <<consVars, storeVars, now, failures, queueVars, agentVars, hitlVars, extVars>>

\* sanitize-pii returned
SanitizeStep(c) ==
  /\ AtStep(c, "sanitize-pii")
  /\ \E pii \in BOOLEAN :
       wf' = [wf EXCEPT ![c] = StepDone(@, "sanitized",
                [has_pii |-> pii,
                 pii_types |-> IF pii THEN <<"ssn">> ELSE <<>>,
                 original_hash |-> sha256(JSON_stringify([claim_text |-> c], 0)),
                 sanitized_at |-> now])]
  /\ UNCHANGED <<otherVars, audit_events, r2Workflow, kvProof, vectorize>>

\* embed-evidence returned: both vectors upserted, the similarity computed
EmbedStep(c) ==
  /\ AtStep(c, "embed-evidence")
  /\ \E sim \in Similarities :
       wf' = [wf EXCEPT ![c] = StepDone(@, "embeddings",
                [claim_evidence_similarity |-> sim, embedded_at |-> now])]
  /\ vectorize' = vectorize \cup {<<"claim", c>>, <<"evidence", c>>}
  /\ UNCHANGED <<otherVars, audit_events, r2Workflow, kvProof>>

\* search-similar-evidence returned
SearchStep(c) ==
  /\ AtStep(c, "search-similar-evidence")
  /\ \E k \in SimilarCounts :
       wf' = [wf EXCEPT ![c] = StepDone(@, "similarEvidence",
                [similar_claims |-> k, context_available |-> k > 0])]
  /\ UNCHANGED <<otherVars, audit_events, r2Workflow, kvProof, vectorize>>

\* shield-consensus-verify returned
VerifyStep(c) ==
  /\ AtStep(c, "shield-consensus-verify")
  /\ \E a1 \in ModelAnswers, a2 \in ModelAnswers :
       wf' = [wf EXCEPT ![c] = StepDone(@, "verification", verifyStep(<<a1, a2>>))]
  /\ UNCHANGED <<otherVars, audit_events, r2Workflow, kvProof, vectorize>>

\* hallucination-detect returned
DetectStep(c) ==
  /\ AtStep(c, "hallucination-detect")
  /\ wf' = [wf EXCEPT ![c] = StepDone(@, "detection",
               detectStep(@.verification, @.embeddings))]
  /\ UNCHANGED <<otherVars, audit_events, r2Workflow, kvProof, vectorize>>

\* a model or index call of one of the first four steps threw
StepThrows(c) ==
  /\ wf[c].status = "running"
  /\ wf[c].step <= 4
  /\ now >= wf[c].notBefore
  /\ wf[c].failed < MaxWfFailures
  /\ wf' = [wf EXCEPT ![c] = StepFailed(@)]
  /\ UNCHANGED <<otherVars, audit_events, r2Workflow, kvProof, vectorize>>

WorkflowCompleteEvent(c) == [event_type |-> "WORKFLOW_COMPLETE", claim_id |-> c]

\* one attempt of sign-and-archive, as far as it gets:
\*   reach = "none"   PROOF_STORAGE.put throws
\*   reach = "r2"     the object is stored, VERIFICATION_CACHE.put throws
\*   reach = "all"    the callback returns the bundle
\* the audit insert in between is best effort (auditOk: it succeeded)
signAndArchive(c, reach, auditOk) ==
  LET bundle == signedBundle(proofBundle(c, wf[c], now))
      key == [claim_id |-> c, proof_hash |-> bundle.proof_hash]
  IN /\ r2Workflow' = IF reach = "none" THEN r2Workflow
                      ELSE R2Put(r2Workflow, key, JSON_stringify(bundle, 2))
     /\ audit_events' = IF reach # "none" /\ auditOk
                        THEN Append(audit_events, WorkflowCompleteEvent(c))
                        ELSE audit_events
     /\ kvProof' = IF reach = "all"
                   THEN [kvProof EXCEPT ![c] = JSON_stringify(bundle, 0)]
                   ELSE kvProof
     /\ wf' = [wf EXCEPT ![c] =
                  IF reach = "all"
                  THEN [StepDone(@, "proof", bundle) EXCEPT !.status = "complete"]
                  ELSE StepFailed(@)]

SignStep(c) ==
  /\ AtStep(c, "sign-and-archive")
  /\ \E auditOk \in BOOLEAN : signAndArchive(c, "all", auditOk)
  /\ UNCHANGED <<otherVars, vectorize>>

SignThrows(c) ==
  /\ AtStep(c, "sign-and-archive")
  /\ wf[c].failed < MaxWfFailures
  /\ \E reach \in {"none", "r2"}, auditOk \in BOOLEAN :
        signAndArchive(c, reach, auditOk)
  /\ UNCHANGED <<otherVars, vectorize>>

(***************************************************************************)
(* ProofAgent.verifyClaimInternal                                          *)
(***************************************************************************)
\* getState().models_available
AgentModels == <<"@cf/meta/llama-3.1-8b-instruct", "@cf/qwen/qwen1.5-14b-chat-awq">>
AgentVerdicts == {"VERIFIED", "UNVERIFIED"}
RawConfidences == {0, 25, 100}
AgentClaimIds == <<"a1", "a2", "a3", "a4">>     \* crypto.randomUUID()

\* what one model call yields: it throws ("error"), its answer has no JSON
\* ("unparsable"), or it parses to a verdict and a confidence
AgentAnswers ==
  {[kind |-> k, verdict |-> NoVerdict, confidence |-> 0] : k \in {"error", "unparsable"}}
  \cup {[kind |-> "parsed", verdict |-> v, confidence |-> k] :
          v \in AgentVerdicts, k \in RawConfidences}

\* Math.min(1.0, Math.max(0.0, parseFloat(parsed.confidence) || 0.5))
clampConfidence(x) ==
  IF x = 0 THEN 50 ELSE IF x > 100 THEN 100 ELSE IF x < 0 THEN 0 ELSE x

\* the votes array: one entry per model that threw or parsed
agentVotes(answers) ==
  LET all == [i \in 1..Len(AgentModels) |->
                [model |-> AgentModels[i],
                 kind |-> answers[i].kind,
                 verdict |-> IF answers[i].kind = "error" THEN "ERROR"
                             ELSE answers[i].verdict,
                 confidence |-> IF answers[i].kind = "error" THEN 0
                                ELSE clampConfidence(answers[i].confidence)]]
  IN SelectSeq(all, LAMBDA v : v.kind # "unparsable")

\* Math.ceil((2 * models.length) / 3)
quorumSize == (2 * Len(AgentModels) + 2) \div 3

\* Object.entries(verdictCounts).sort((a, b) => b[1] - a[1])[0]?.[0]
\*   || 'INSUFFICIENT_EVIDENCE'
agentMajorityVerdict(validVotes) ==
  IF Len(validVotes) = 0 THEN "INSUFFICIENT_EVIDENCE" ELSE majorityVerdict(validVotes)

\* the result verifyClaimInternal returns
verifyClaimInternal(claimId, answers) ==
  LET allVotes == agentVotes(answers)
      validVotes == SelectSeq(allVotes, LAMBDA v : v.verdict # "ERROR")
      hasQuorum == Len(validVotes) >= quorumSize
      constitutionalHalt == SqDev(validVotes) > 25 * 25 * Len(validVotes) * Len(validVotes)
      mv == agentMajorityVerdict(validVotes)
      finalVerdict == IF constitutionalHalt THEN "CONSTITUTIONAL_HALT" ELSE mv
      avgConfidence == <<SumConf(validVotes), Len(validVotes)>>
  IN [claim_id |-> claimId,
      verdict |-> finalVerdict,
      confidence |-> avgConfidence,
      sq_dev |-> SqDev(validVotes),
      constitutional_halt |-> constitutionalHalt,
      quorum |-> hasQuorum,
      votes |-> Len(validVotes),
      required_quorum |-> quorumSize,
      proof_hash |-> sha256(JSON_stringify(
          [claimId |-> claimId, votes |-> allVotes, finalVerdict |-> finalVerdict,
           avgConfidence |-> avgConfidence], 0)),
      model_votes |-> allVotes,
      timestamp |-> now]

AgentInit ==
  /\ agentState = [verifications_count |-> 0]
  /\ verification_history = <<>>
  /\ agentProofs = {}

\* POST /v1/verify, paid: one verification, its history row, the counter,
\* and the copies in the cache and the archive (their failures are swallowed)
AgentVerify ==
  /\ Len(verification_history) < MaxVerifications
  /\ \E a1 \in AgentAnswers, a2 \in AgentAnswers :
       LET result == verifyClaimInternal(
                        AgentClaimIds[Len(verification_history) + 1], <<a1, a2>>)
       IN /\ verification_history' = Append(verification_history,
                [id |-> result.claim_id, result |-> result.verdict,
                 confidence |-> result.confidence, proof_hash |-> result.proof_hash,
                 quorum |-> result.quorum,
                 constitutional_halt |-> result.constitutional_halt])
          /\ agentState' = [agentState EXCEPT !.verifications_count = @ + 1]
          /\ agentProofs' = agentProofs \cup {result}
  /\ UNCHANGED <<consVars, storeVars, audit_events, now, failures, queueVars, wfVars,
                 hitlVars, extVars>>

(***************************************************************************)
(* The HITL approval workflow and its API (regulation-tracker.js)          *)
(* confidence and completeness_score are in hundredths                      *)
(***************************************************************************)
DefaultHaltThreshold == 67   \* parseFloat(this.env.HALT_THRESHOLD || '0.67')
HaltThresholds == {30, DefaultHaltThreshold, 80}   \* configured HALT_THRESHOLD values
Priorities == {"normal", "high"}
HitlClaimKinds ==
  {[condition |-> "ptsd"],
   [condition |-> "ptsd", type |-> "tdiu"],
   [condition |-> "ptsd", disability_rating |-> 70]}

\* the fallback used when the model's answer cannot be parsed
ParseFailureScreening ==
  [completeness_score |-> 50, risk_flags |-> <<"ai_parse_failure">>,
   recommended_action |-> "review", confidence |-> 30]

\* answers of the screening model that parse
ParsedScreenings ==
  {[completeness_score |-> 80, risk_flags |-> <<>>, recommended_action |-> "approve",
    confidence |-> k] : k \in {35, 50, 80}}
  \cup {[completeness_score |-> 80, risk_flags |-> <<"gap">>,
         recommended_action |-> "approve", confidence |-> 80],
        [completeness_score |-> 80, risk_flags |-> <<>>,
         recommended_action |-> "reject", confidence |-> 80]}

Screenings == ParsedScreenings \cup {ParseFailureScreening}

\* the value the risk-assessment callback returns
riskAssessment(claimId, s, priority, claim, haltThreshold) ==
  LET requiresHumanReview ==
        \/ s.recommended_action = "review"
        \/ s.recommended_action = "reject"
        \/ s.confidence < haltThreshold
        \/ s.completeness_score < 60
        \/ Len(s.risk_flags) > 2
        \/ priority = "high"
        \/ (Has(claim, "type") /\ claim.type = "tdiu")
        \/ (Has(claim, "disability_rating") /\ claim.disability_rating >= 70)
  IN [claimId |-> claimId,
      requires_human_review |-> requiresHumanReview,
      risk_level |-> IF s.confidence < 40 THEN "critical"
                     ELSE IF s.confidence < haltThreshold THEN "high"
                     ELSE IF Len(s.risk_flags) > 0 THEN "medium" ELSE "low",
      halt_triggered |-> s.confidence < haltThreshold,
      screening_summary |->
        [completeness |-> s.completeness_score, confidence |-> s.confidence,
         action |-> s.recommended_action, flags |-> s.risk_flags]]

\* Mutant of autoApproval: the synthetic decision without its auto mark.
autoApproval_Unmarked(risk) ==
  [payload |->
     [decision |-> "approved", reviewer |-> "auto-approve",
      reason |-> <<"Low risk", risk.screening_summary.confidence,
                   Len(risk.screening_summary.flags)>>]]

\* the approvalResult of a claim that needs no human review
autoApproval(risk) ==
  [payload |->
     [decision |-> "approved", reviewer |-> "auto-approve",
      reason |-> <<"Low risk", risk.screening_summary.confidence,
                   Len(risk.screening_summary.flags)>>,
      auto |-> TRUE]]

\* the events /v1/claims/approve and /v1/claims/reject send (body.reviewer,
\* body.reason and body.notes left out of the request)
approveEvent(claimId, t) ==
  [type |-> claimId,
   payload |-> [decision |-> "approved", reviewer |-> "unknown",
                reason |-> <<"Manual approval">>, notes |-> "", approved_at |-> t]]
rejectEvent(claimId, t) ==
  [type |-> claimId,
   payload |-> [decision |-> "rejected", reviewer |-> "unknown",
                reason |-> <<"Manual rejection">>, notes |-> "", rejected_at |-> t]]

\* proofData of sign-proof, before proof_hash is added
hitlProofData(claimId, w, decision, t) ==
  [id |-> <<"uuid", claimId>>,
   claim_id |-> claimId,
   type |-> "vetproof_hitl_approved",
   claim_type |-> IF Has(w.claim, "type") THEN w.claim.type
                  ELSE "disability_compensation",
   condition |-> w.claim.condition,
   screening_confidence |-> w.screening.confidence,
   risk_level |-> w.risk.risk_level,
   reviewer |-> decision.reviewer,
   auto_approved |-> Truthy(decision, "auto"),
   approved_at |-> t,
   constitutional_halt |-> w.risk.halt_triggered,
   processing_time_ms |-> t - w.startTime]

HitlRetryLimit == 2          \* ai-pre-screen: retries: { limit: 2, ... }
PendingIndexKeep == 100      \* pendingList.slice(-100)
PendingListShow == 20        \* pendingIndex.slice(-20)

HitlIdle ==
  [status |-> "idle", at |-> "ai-pre-screen", attempts |-> 0, startTime |-> 0,
   claim |-> NoOutput, priority |-> "normal", haltThreshold |-> DefaultHaltThreshold,
   screening |-> NoOutput, risk |-> NoOutput, pendingRead |-> <<>>,
   waitingSince |-> 0, timedOut |-> FALSE, decision |-> NoOutput,
   proof |-> NoOutput, output |-> NoOutput]

HitlInit ==
  /\ hitl = [c \in Claims |-> HitlIdle]
  /\ hitlEvents = [c \in Claims |-> <<>>]
  /\ kvPending = [c \in Claims |-> NoObject]
  /\ pendingIndex = <<>>
  /\ r2Hitl = {}
  /\ kvHitlProof = [c \in Claims |-> NoObject]
  /\ reviewCalls = <<>>

HitlAt(c, name) == hitl[c].status = "running" /\ hitl[c].at = name

\* array.slice(-n)
SliceLast(s, n) == IF Len(s) <= n THEN s ELSE SubSeq(s, Len(s) - n + 1, Len(s))

hitlFrame == <<consVars, storeVars, now, failures, queueVars, wfVars, agentVars, extVars>>

\* POST /v1/claims/submit: HITL_WORKFLOW.create, run() starts
hitlSubmit(c, claim, priority, haltThreshold) ==
  /\ hitl[c].status = "idle"
  /\ hitl' = [hitl EXCEPT ![c] =
        [@ EXCEPT !.status = "running", !.startTime = now, !.claim = claim,
                  !.priority = priority, !.haltThreshold = haltThreshold]]
  /\ UNCHANGED <<hitlFrame, audit_events, hitlEvents, kvPending, pendingIndex,
                 r2Hitl, kvHitlProof, reviewCalls>>

\* step ai-pre-screen returned: a parsed answer or the parse-failure fallback
HitlPreScreen(c, answers) ==
  /\ HitlAt(c, "ai-pre-screen")
  /\ \E s \in answers :
       hitl' = [hitl EXCEPT ![c] =
          [@ EXCEPT !.screening = s, !.at = "risk-assessment", !.attempts = 0]]
  /\ UNCHANGED <<hitlFrame, audit_events, hitlEvents, kvPending, pendingIndex,
                 r2Hitl, kvHitlProof, reviewCalls>>

\* step ai-pre-screen threw (ai.run failed): retried up to its limit
HitlPreScreenThrows(c) ==
  /\ HitlAt(c, "ai-pre-screen")
  /\ hitl' = [hitl EXCEPT ![c] =
        IF @.attempts < HitlRetryLimit
        THEN [@ EXCEPT !.attempts = @ + 1]
        ELSE [@ EXCEPT !.status = "errored"]]
  /\ UNCHANGED <<hitlFrame, audit_events, hitlEvents, kvPending, pendingIndex,
                 r2Hitl, kvHitlProof, reviewCalls>>

\* step risk-assessment
HitlRiskAssessment(c) ==
  /\ HitlAt(c, "risk-assessment")
  /\ hitl' = [hitl EXCEPT ![c] =
        [@ EXCEPT !.risk = riskAssessment(c, hitl[c].screening, hitl[c].priority,
                                          hitl[c].claim, hitl[c].haltThreshold),
                  !.at = "audit-screening"]]
  /\ UNCHANGED <<hitlFrame, audit_events, hitlEvents, kvPending, pendingIndex,
                 r2Hitl, kvHitlProof, reviewCalls>>

\* where run() goes once approvalResult is known: sign-proof if approved
AfterDecision(w, approvalResult) ==
  LET decision == IF Has(approvalResult, "payload") THEN approvalResult.payload
                  ELSE approvalResult
      isApproved == Has(decision, "decision") /\ decision.decision = "approved"
  IN [w EXCEPT !.decision = decision,
               !.at = IF isApproved THEN "sign-proof" ELSE "audit-decision"]

\* step audit-screening (the insert is best effort), then the gate: a claim
\* that needs no review gets the synthetic approval at once
HitlAuditScreening(c) ==
  /\ HitlAt(c, "audit-screening")
  /\ \E auditOk \in BOOLEAN :
       audit_events' = IF auditOk
                       THEN Append(audit_events,
                              [event_type |-> "hitl_screening", claim_id |-> c])
                       ELSE audit_events
  /\ hitl' = [hitl EXCEPT ![c] =
        IF @.risk.requires_human_review
        THEN [@ EXCEPT !.at = "cache-pending-review"]
        ELSE AfterDecision(@, autoApproval(@.risk))]
  /\ UNCHANGED <<hitlFrame, hitlEvents, kvPending, pendingIndex,
                 r2Hitl, kvHitlProof, reviewCalls>>

PendingEntry(c, w, t) ==
  JSON_stringify([claimId |-> c, claim |-> w.claim, screening |-> w.screening,
                  risk |-> w.risk, submitted_at |-> t,
                  status |-> "awaiting_review"], 0)

\* step cache-pending-review, up to the read of the index
HitlCachePending(c) ==
  /\ HitlAt(c, "cache-pending-review")
  /\ kvPending' = [kvPending EXCEPT ![c] = PendingEntry(c, hitl[c], now)]
  /\ hitl' = [hitl EXCEPT ![c] =
        [@ EXCEPT !.pendingRead = pendingIndex, !.at = "cache-pending-index"]]
  /\ UNCHANGED <<hitlFrame, audit_events, hitlEvents, pendingIndex,
                 r2Hitl, kvHitlProof, reviewCalls>>

\* step cache-pending-review, the write of the index; then waitForEvent
HitlCachePendingIndex(c) ==
  /\ HitlAt(c, "cache-pending-index")
  /\ pendingIndex' = SliceLast(
        Append(hitl[c].pendingRead,
               [claimId |-> c, risk_level |-> hitl[c].risk.risk_level,
                submitted_at |-> now]),
        PendingIndexKeep)
  /\ hitl' = [hitl EXCEPT ![c] =
        [@ EXCEPT !.at = "human-approval", !.waitingSince = now]]
  /\ UNCHANGED <<hitlFrame, audit_events, hitlEvents, kvPending,
                 r2Hitl, kvHitlProof, reviewCalls>>

\* the first buffered event of the type waitForEvent waits for, 0 if none
MatchingEvent(c) ==
  LET idx == {i \in 1..Len(hitlEvents[c]) : hitlEvents[c][i].type = c}
  IN IF idx = {} THEN 0 ELSE CHOOSE i \in idx : \A j \in idx : i <= j

RemoveAt(s, i) == SubSeq(s, 1, i - 1) \o SubSeq(s, i + 1, Len(s))

\* step.waitForEvent('human-approval') returned an event
HitlReceiveEvent(c) ==
  /\ HitlAt(c, "human-approval")
  /\ MatchingEvent(c) > 0
  /\ hitl' = [hitl EXCEPT ![c] =
        [AfterDecision(@, hitlEvents[c][MatchingEvent(c)])
           EXCEPT !.at = "cleanup-pending"]]
  /\ hitlEvents' = [hitlEvents EXCEPT ![c] = RemoveAt(@, MatchingEvent(c))]
  /\ UNCHANGED <<hitlFrame, audit_events, kvPending, pendingIndex,
                 r2Hitl, kvHitlProof, reviewCalls>>

\* the 7 days of waitForEvent passed without an event (a tick of the clock
\* stands for any span of time): waitForEvent throws, run() has no handler
\* for it, so the instance ends in error
HitlWaitTimesOut(c) ==
  /\ HitlAt(c, "human-approval")
  /\ MatchingEvent(c) = 0
  /\ now > hitl[c].waitingSince
  /\ hitl' = [hitl EXCEPT ![c] = [@ EXCEPT !.status = "errored", !.timedOut = TRUE]]
  /\ UNCHANGED <<hitlFrame, audit_events, hitlEvents, kvPending, pendingIndex,
                 r2Hitl, kvHitlProof, reviewCalls>>

\* step cleanup-pending, then the decision is processed
HitlCleanup(c) ==
  /\ HitlAt(c, "cleanup-pending")
  /\ kvPending' = [kvPending EXCEPT ![c] = NoObject]
  /\ hitl' = [hitl EXCEPT ![c] = AfterDecision(@, @.decision)]
  /\ UNCHANGED <<hitlFrame, audit_events, hitlEvents, pendingIndex,
                 r2Hitl, kvHitlProof, reviewCalls>>

\* step sign-proof: the R2 put is best effort (r2Ok: it succeeded)
HitlSignProof(c) ==
  /\ HitlAt(c, "sign-proof")
  /\ \E r2Ok \in BOOLEAN :
       LET data == hitlProofData(c, hitl[c], hitl[c].decision, now)
           proofData == data @@ [proof_hash |-> sha256(JSON_stringify(data, 0))]
       IN /\ r2Hitl' = IF r2Ok
                       THEN R2Put(r2Hitl, [claim_id |-> c, id |-> proofData.id],
                                  JSON_stringify(proofData, 2))
                       ELSE r2Hitl
          /\ kvHitlProof' = [kvHitlProof EXCEPT ![c] = JSON_stringify(proofData, 0)]
          /\ hitl' = [hitl EXCEPT ![c] =
                [@ EXCEPT !.proof = proofData, !.at = "audit-decision"]]
  /\ UNCHANGED <<hitlFrame, audit_events, hitlEvents, kvPending, pendingIndex,
                 reviewCalls>>

\* what run() returns
hitlOutput(c, w) ==
  LET isApproved == Has(w.decision, "decision") /\ w.decision.decision = "approved"
  IN [claimId |-> c,
      status |-> IF isApproved THEN "approved" ELSE "rejected",
      reviewer |-> w.decision.reviewer,
      auto_approved |-> Truthy(w.decision, "auto"),
      risk_level |-> w.risk.risk_level,
      halt_triggered |-> w.risk.halt_triggered,
      screening_confidence |-> w.screening.confidence]
       @@ Opt(Has(w.decision, "decision"), [decision |-> w.decision.decision])
       @@ Opt(w.proof # NoOutput, [proof |-> w.proof])

\* step audit-decision (the insert is best effort), then run() returns
HitlAuditDecision(c) ==
  /\ HitlAt(c, "audit-decision")
  /\ \E auditOk \in BOOLEAN :
       audit_events' =
         IF auditOk
         THEN Append(audit_events,
                [event_type |-> IF hitlOutput(c, hitl[c]).status = "approved"
                                THEN "hitl_approved" ELSE "hitl_rejected",
                 claim_id |-> c])
         ELSE audit_events
  /\ hitl' = [hitl EXCEPT ![c] =
        [@ EXCEPT !.status = "complete", !.at = "done",
                  !.output = hitlOutput(c, hitl[c])]]
  /\ UNCHANGED <<hitlFrame, hitlEvents, kvPending, pendingIndex,
                 r2Hitl, kvHitlProof, reviewCalls>>

\* POST /v1/claims/approve and /v1/claims/reject with workflow_id and claim_id
\* of claim c: HITL_WORKFLOW.get throws for an unknown id; sendEvent to an
\* instance that has ended either throws or is accepted and dropped
hitlReview(c, event, sentStatus, failedError) ==
  /\ Len(reviewCalls) < MaxReviewCalls
  /\ \E accepted \in BOOLEAN :
       /\ hitl[c].status = "idle" => ~accepted
       /\ hitl[c].status = "running" => accepted
       /\ hitlEvents' = IF accepted /\ hitl[c].status = "running"
                        THEN [hitlEvents EXCEPT ![c] = Append(@, event)]
                        ELSE hitlEvents
       /\ reviewCalls' = Append(reviewCalls,
             [workflow_id |-> c,
              resolved |-> hitl[c].decision # NoOutput,
              response |-> IF accepted THEN sentStatus ELSE failedError])
  /\ UNCHANGED <<hitlFrame, audit_events, hitl, kvPending, pendingIndex,
                 r2Hitl, kvHitlProof>>

hitlApprove(c) ==
  hitlReview(c, approveEvent(c, now), "approval_sent", "Failed to send approval")
hitlReject(c) ==
  hitlReview(c, rejectEvent(c, now), "rejection_sent", "Failed to send rejection")

\* GET /v1/claims/pending: the claims of the response
listPending ==
  LET shown == SliceLast(pendingIndex, PendingListShow)
      kept == SelectSeq(shown, LAMBDA item : kvPending[item.claimId] # NoObject)
  IN [i \in 1..Len(kept) |-> JSON_parse(kvPending[kept[i].claimId])]

(***************************************************************************)
(* The revenue gateway (revenue-gateway.js): /v1/verify without an API key *)
(***************************************************************************)
AnonDailyLimit == 10         \* `if (anonUsage >= 10)`
GwRequests == {"q1", "q2"}   \* requests of one address that may be in flight together
GwIdle == [reading |-> FALSE, usage |-> 0]

\* the header names of the responses
CorsHeaders ==
  {"Access-Control-Allow-Origin", "Access-Control-Allow-Methods",
   "Access-Control-Allow-Headers"}

\* generatePaymentRequired: status 402 and its headers
generatePaymentRequired ==
  [status |-> 402,
   headers |-> {"Content-Type", "X-Payment-Required", "X-Payment-Types", "X-Pricing-Url"}]

\* json(data): status 200 with the CORS headers
gwJson == [status |-> 200, headers |-> CorsHeaders \cup {"Content-Type"}]

GwInit ==
  /\ gwUsage = 0
  /\ gwInflight = [q \in GwRequests |-> GwIdle]
  /\ gwServed = 0
  /\ gwResponses = {}

gwFrame == <<baseVars, fleetVars, collVars, regVars, runVars, taskVars>>

\* /v1/verify, no key, up to the await of RATE_LIMITS.get: the usage is read;
\* at the limit the request is answered 402 at once
GwAnonRead(q) ==
  /\ ~gwInflight[q].reading
  /\ gwServed + Cardinality({r \in GwRequests : gwInflight[r].reading}) < MaxGwRequests
  /\ IF gwUsage >= AnonDailyLimit
     THEN /\ gwResponses' = gwResponses \cup {generatePaymentRequired}
          /\ UNCHANGED <<gwUsage, gwInflight, gwServed>>
     ELSE /\ gwInflight' = [gwInflight EXCEPT ![q] = [reading |-> TRUE, usage |-> gwUsage]]
          /\ UNCHANGED <<gwUsage, gwServed, gwResponses>>
  /\ UNCHANGED gwFrame

\* /v1/verify, no key, after the read: the usage read plus one is written and
\* the demo answer is given
GwAnonWrite(q) ==
  /\ gwInflight[q].reading
  /\ gwUsage' = gwInflight[q].usage + 1
  /\ gwInflight' = [gwInflight EXCEPT ![q] = GwIdle]
  /\ gwServed' = gwServed + 1
  /\ gwResponses' = gwResponses \cup {gwJson}
  /\ UNCHANGED gwFrame


(***************************************************************************)
(* Fleet health monitor (runFleetHealthCheck) and notification hub         *)
(***************************************************************************)
\* THRESHOLDS.consecutiveFailures
ConsecutiveFailures == 3

\* FLEET, two of its workers: one critical, one not
FleetOrder == <<"vetproof-consensus", "regulation-tracker">>
FleetWorkers == {FleetOrder[i] : i \in 1..Len(FleetOrder)}
FleetCritical == [w \in FleetWorkers |-> w = "vetproof-consensus"]
\* the status checkWorkerHealth gives a worker
FleetStatuses == {"healthy", "degraded", "down"}
\* the health checks that may run together: the cron and /v1/fleet/check
FleetCheckIds == {"cron", "manual"}

\* `result.status === 'down' || (result.status === 'degraded' && result.critical)`
fleetFailing(w, status) ==
  status = "down" \/ (status = "degraded" /\ FleetCritical[w])

FleetIdle ==
  [pc |-> "idle", i |-> 1, results |-> [w \in FleetWorkers |-> "healthy"],
   streaks |-> [w \in FleetWorkers |-> 0], prev |-> 0, alerts |-> {}]

\* the values of the alert keys: nothing, or the parsed JSON text
KvNull == [kind |-> "null", alerts |-> {}]
AlertKeys == {"fleet:pending_alerts", "fleet:alerts"}

FleetInit ==
  /\ fleetFailures = [w \in FleetWorkers |-> 0]
  /\ fleetRuns = [k \in FleetCheckIds |-> FleetIdle]
  /\ fleetStreak = [w \in FleetWorkers |-> 0]
  /\ fleetLog = {}
  /\ fleetChecks = 0
  /\ kvAlerts = [key \in AlertKeys |-> KvNull]
  /\ hubSent = {}
  /\ hubChecked = FALSE

fleetFrame == <<baseVars, gwVars, collVars, regVars, runVars, taskVars>>

\* runFleetHealthCheck up to the failure counters: every worker is probed
FleetProbe(k, results) ==
  /\ fleetRuns[k].pc = "idle"
  /\ fleetChecks < MaxFleetChecks
  /\ fleetChecks' = fleetChecks + 1
  /\ fleetStreak' = [w \in FleetWorkers |->
                       IF fleetFailing(w, results[w]) THEN fleetStreak[w] + 1 ELSE 0]
  /\ fleetRuns' = [fleetRuns EXCEPT ![k] =
                     [FleetIdle EXCEPT !.pc = "count", !.results = results,
                                       !.streaks = fleetStreak']]
  /\ UNCHANGED <<fleetFailures, fleetLog, kvAlerts, hubSent, hubChecked, fleetFrame>>

\* the loop over the results, one worker: a failing result reads the failure
\* counter, any other result deletes it
FleetCount(k) ==
  LET run == fleetRuns[k]
      w == FleetOrder[run.i]
  IN /\ run.pc = "count"
     /\ run.i <= Len(FleetOrder)
     /\ IF fleetFailing(w, run.results[w])
        THEN /\ fleetRuns' = [fleetRuns EXCEPT ![k].pc = "put",
                                               ![k].prev = fleetFailures[w]]
             /\ UNCHANGED fleetFailures
        ELSE /\ fleetFailures' = [fleetFailures EXCEPT ![w] = 0]
             /\ fleetRuns' = [fleetRuns EXCEPT ![k].i = run.i + 1]
     /\ UNCHANGED <<fleetStreak, fleetLog, fleetChecks, kvAlerts, hubSent, hubChecked,
                    fleetFrame>>

\* the alert pushed for a worker at the threshold
fleetAlert(w, status, newFails) ==
  [severity |-> IF FleetCritical[w] THEN "critical" ELSE "warning",
   worker |-> w, status |-> status, consecutiveFailures |-> newFails]

\* the loop, after the read: the counter read plus one is written, and at the
\* threshold an alert is pushed
FleetPut(k) ==
  LET run == fleetRuns[k]
      w == FleetOrder[run.i]
      newFails == run.prev + 1
      alerted == newFails >= ConsecutiveFailures
  IN /\ run.pc = "put"
     /\ fleetFailures' = [fleetFailures EXCEPT ![w] = newFails]
     /\ fleetRuns' = [fleetRuns EXCEPT
          ![k].pc = "count", ![k].i = run.i + 1,
          ![k].alerts = IF alerted
                        THEN run.alerts \cup {fleetAlert(w, run.results[w], newFails)}
                        ELSE run.alerts]
     /\ fleetLog' = fleetLog \cup
          {[worker |-> w, streak |-> run.streaks[w], alerted |-> alerted]}
     /\ UNCHANGED <<fleetStreak, fleetChecks, kvAlerts, hubSent, hubChecked, fleetFrame>>

\* after the loop: the alerts, if any, are stored for the notification hub
FleetStore(k) ==
  LET run == fleetRuns[k]
  IN /\ run.pc = "count"
     /\ run.i > Len(FleetOrder)
     /\ fleetRuns' = [fleetRuns EXCEPT ![k] = FleetIdle]
     /\ IF run.alerts # {}
        THEN /\ kvAlerts' = [kvAlerts EXCEPT !["fleet:pending_alerts"] =
                               [kind |-> "object", alerts |-> run.alerts]]
             /\ hubChecked' = FALSE
        ELSE UNCHANGED <<kvAlerts, hubChecked>>
     /\ UNCHANGED <<fleetFailures, fleetStreak, fleetLog, fleetChecks, hubSent, fleetFrame>>

\* getDefaultChannels
getDefaultChannels(priority) ==
  CASE priority = "P0" -> {"discord", "email", "webhook"}
    [] priority = "P1" -> {"discord", "email"}
    [] OTHER -> {"discord"}

\* checkPendingAlerts, the fleet part: the alerts of the array under fleet:alerts
checkPendingAlerts(kv) ==
  LET fleetAlerts == kv["fleet:alerts"]
  IN IF fleetAlerts.kind = "array"
     THEN {[priority |-> "P0", worker |-> a.worker] : a \in fleetAlerts.alerts}
     ELSE {}

\* processAlert: the alert goes to the channels of its priority
processAlert(alert) ==
  [worker |-> alert.worker, channels |-> getDefaultChannels(alert.priority)]

\* scheduled, cron */5: the pending alerts are processed
HubScheduled ==
  /\ hubSent' = hubSent \cup {processAlert(a) : a \in checkPendingAlerts(kvAlerts)}
  /\ hubChecked' = TRUE
  /\ UNCHANGED <<fleetFailures, fleetRuns, fleetStreak, fleetLog, fleetChecks, kvAlerts,
                 fleetFrame>>


(***************************************************************************)
(* CollectiveOrchestrationWorkflow (regulation-tracker.js)                 *)
(***************************************************************************)
\* VERTICALS, two of them, with their halt_threshold in hundredths
Verticals == {"vetproof", "aviation"}
halt_threshold == [v \in Verticals |-> IF v = "vetproof" THEN 67 ELSE 85]

\* what the domain model may answer: confidence in hundredths, the number of
\* its risk factors and of its knowledge shards with a usable pattern_value
CollConfidences == {30, 66, 67, 85, 90}
Recommendations == {"approve", "review", "reject"}
CollAnswers ==
  [confidence : CollConfidences, recommendation : Recommendations,
   risk_factors : {0, 3}, knowledge_shards : {0, 1}]
\* the analysis used when the answer cannot be parsed
CollParseFailure ==
  [confidence |-> 30, recommendation |-> "review", risk_factors |-> 1,
   knowledge_shards |-> 0]

\* constitutional-halt
collHaltCheck(threshold, analysis) ==
  [halt_triggered |-> analysis.confidence < threshold,
   threshold |-> threshold,
   confidence |-> analysis.confidence,
   risk_level |-> IF analysis.confidence < 40 THEN "critical"
                  ELSE IF analysis.confidence < threshold THEN "high"
                  ELSE IF analysis.risk_factors > 2 THEN "medium" ELSE "low"]

\* store-proof: the proof data
collProofData(v, analysis, haltCheck, shardCount, context) ==
  [type |-> "sentient_collective_analysis", vertical |-> v,
   confidence |-> analysis.confidence,
   halt_triggered |-> haltCheck.halt_triggered,
   risk_level |-> haltCheck.risk_level,
   recommendation |-> analysis.recommendation,
   shards_contributed |-> shardCount,
   collective_context |-> context]

\* what run returns
collOutput(v, analysis, haltCheck, shardCount, context) ==
  [vertical |-> v,
   status |-> analysis.recommendation,
   confidence |-> analysis.confidence,
   halt_triggered |-> haltCheck.halt_triggered,
   risk_level |-> haltCheck.risk_level,
   shards_contributed |-> shardCount,
   collective_context |-> context]

CollIdle ==
  [pc |-> "idle", vertical |-> "vetproof", analysis |-> CollParseFailure,
   haltCheck |-> collHaltCheck(0, CollParseFailure), shards |-> 0, context |-> 0,
   output |-> collOutput("vetproof", CollParseFailure, collHaltCheck(0, CollParseFailure), 0, 0)]
NoCollProof ==
  collProofData("vetproof", CollParseFailure, collHaltCheck(0, CollParseFailure), 0, 0)

CollInit ==
  /\ coll = CollIdle
  /\ collShards = {}
  /\ collProof = [stored |-> FALSE, data |-> NoCollProof]

collFrame == <<consVars, storeVars, now, failures, queueVars, wfVars, agentVars,
               hitlVars, gwVars, fleetVars, regVars, runVars, taskVars>>

\* route-to-vertical
CollRoute(v) ==
  /\ coll.pc = "idle"
  /\ coll' = [coll EXCEPT !.pc = "domain-analysis", !.vertical = v]
  /\ UNCHANGED <<collShards, collProof, audit_events, collFrame>>

\* domain-analysis: the model's answer, or the fallback when it cannot be parsed
CollDomainAnalysis(parsed, answer) ==
  /\ coll.pc = "domain-analysis"
  /\ coll' = [coll EXCEPT !.pc = "constitutional-halt",
                          !.analysis = IF parsed THEN answer ELSE CollParseFailure]
  /\ UNCHANGED <<collShards, collProof, audit_events, collFrame>>

\* constitutional-halt
CollConstitutionalHalt ==
  /\ coll.pc = "constitutional-halt"
  /\ coll' = [coll EXCEPT !.pc = "extract-shards",
                !.haltCheck = collHaltCheck(halt_threshold[coll.vertical], coll.analysis)]
  /\ UNCHANGED <<collShards, collProof, audit_events, collFrame>>

\* extract-shards
CollExtractShards ==
  /\ coll.pc = "extract-shards"
  /\ coll' = [coll EXCEPT !.pc = "store-shards", !.shards = coll.analysis.knowledge_shards]
  /\ UNCHANGED <<collShards, collProof, audit_events, collFrame>>

\* store-shards, skipped on halt or without shards; a failed embedding or
\* upsert stores nothing
CollStoreShards(ok) ==
  /\ coll.pc = "store-shards"
  /\ coll' = [coll EXCEPT !.pc = "query-collective"]
  /\ IF coll.shards > 0 /\ ~coll.haltCheck.halt_triggered /\ ok
     THEN collShards' = collShards \cup
            {[domain |-> coll.vertical, confidence |-> coll.analysis.confidence,
              constitutional |-> ~coll.haltCheck.halt_triggered]}
     ELSE UNCHANGED collShards
  /\ UNCHANGED <<collProof, audit_events, collFrame>>

\* query-collective: the shards of the vertical in the index (topK 5)
CollQueryCollective(ok) ==
  LET matches == Cardinality({x \in collShards : x.domain = coll.vertical})
  IN /\ coll.pc = "query-collective"
     /\ coll' = [coll EXCEPT !.pc = "audit-collective",
                             !.context = IF ok THEN (IF matches > 5 THEN 5 ELSE matches) ELSE 0]
     /\ UNCHANGED <<collShards, collProof, audit_events, collFrame>>

\* audit-collective: best effort
CollAudit(ok) ==
  /\ coll.pc = "audit-collective"
  /\ coll' = [coll EXCEPT !.pc = "store-proof"]
  /\ audit_events' = IF ok
       THEN Append(audit_events, [event_type |-> "collective_analysis", claim_id |-> "c1"])
       ELSE audit_events
  /\ UNCHANGED <<collShards, collProof, collFrame>>

\* store-proof and the value run returns
CollStoreProof ==
  LET data == collProofData(coll.vertical, coll.analysis, coll.haltCheck, coll.shards,
                            coll.context)
  IN /\ coll.pc = "store-proof"
     /\ collProof' = [stored |-> TRUE, data |-> data]
     /\ coll' = [coll EXCEPT !.pc = "complete",
                   !.output = collOutput(coll.vertical, coll.analysis, coll.haltCheck,
                                         coll.shards, coll.context)]
     /\ UNCHANGED <<collShards, audit_events, collFrame>>


(***************************************************************************)
(* runRegulationCheck (regulation-tracker.js)                              *)
(***************************************************************************)
\* REGULATORY_DOMAINS, in the order of Object.entries
RegulatoryDomains ==
  <<"va_disability", "hipaa", "faa_uas", "sox_financial", "ferpa_education",
    "nist_ai", "eu_ai_act", "mn_mcdpa", "pqc_nist">>
DomainKeys == {RegulatoryDomains[i] : i \in 1..Len(RegulatoryDomains)}
\* the domains with a cfr_title, and the domains whose source is ecfr.gov
HasCfrTitle ==
  {"va_disability", "hipaa", "faa_uas", "sox_financial", "ferpa_education"}
SourceEcfr == {"va_disability", "hipaa", "faa_uas", "ferpa_education"}

\* SYMBIOSIS_MAP: <<trigger, impact>>
SYMBIOSIS_MAP ==
  {<<"hipaa", "vetproof">>, <<"hipaa", "legal">>, <<"faa_uas", "finance">>,
   <<"nist_ai", "vetproof">>, <<"nist_ai", "legal">>, <<"nist_ai", "finance">>,
   <<"nist_ai", "health">>, <<"nist_ai", "aviation">>,
   <<"eu_ai_act", "finance">>, <<"eu_ai_act", "health">>,
   <<"pqc_nist", "vetproof">>, <<"pqc_nist", "finance">>,
   <<"mn_mcdpa", "health">>, <<"mn_mcdpa", "vetproof">>}

\* how the check of one domain may go: the fetch or the model call throws; the
\* response is not ok or the answer cannot be parsed; nothing new; a change
RegOutcomes == {"throws", "fails", "same", "changed"}
NoDate == "-"
NewDate == "2026-11-01"

regUpdate(d, type, impacted) == [domain |-> d, type |-> type, impacted_vertical |-> impacted]

\* the updates pushed for one domain
regUpdatesOf(d, outcome) ==
  IF d \in HasCfrTitle /\ d \in SourceEcfr
  THEN CASE outcome = "throws" -> {regUpdate(d, "check_error", "-")}
         [] outcome = "changed" ->
              {regUpdate(d, "regulatory_update", "-")}
                \cup {regUpdate(d, "cross_domain_impact", rule[2]) :
                        rule \in {r \in SYMBIOSIS_MAP : r[1] = d}}
         [] OTHER -> {}
  ELSE IF d \notin HasCfrTitle
  THEN CASE outcome = "throws" -> {regUpdate(d, "check_error", "-")}
         [] outcome = "changed" -> {regUpdate(d, "ai_detected_change", "-")}
         [] OTHER -> {}
  ELSE {}

\* whether either branch of the loop body runs for the domain
regExamined(d) == (d \in HasCfrTitle /\ d \in SourceEcfr) \/ d \notin HasCfrTitle

RegIdle == [pc |-> "idle", i |-> 1, updates |-> {}, examined |-> {}, changed |-> {}]

RegInit ==
  /\ regCheck = RegIdle
  /\ regVersion = [d \in DomainKeys |-> NoDate]
  /\ regLatest = {}

regFrame == <<consVars, storeVars, now, failures, queueVars, agentVars, hitlVars,
              gwVars, fleetVars, collVars, runVars, taskVars>>

\* runRegulationCheck is called
RegBegin ==
  /\ regCheck.pc = "idle"
  /\ regCheck' = [RegIdle EXCEPT !.pc = "loop"]
  /\ UNCHANGED <<regVersion, regLatest, audit_events, wfVars, regFrame>>

\* the loop body for the next domain
RegDomain(outcome) ==
  LET d == RegulatoryDomains[regCheck.i]
  IN /\ regCheck.pc = "loop"
     /\ regCheck.i <= Len(RegulatoryDomains)
     /\ regCheck' = [regCheck EXCEPT
          !.i = regCheck.i + 1,
          !.updates = regCheck.updates \cup regUpdatesOf(d, outcome),
          !.examined = IF regExamined(d) THEN regCheck.examined \cup {d}
                       ELSE regCheck.examined,
          !.changed = IF regExamined(d) /\ outcome = "changed"
                      THEN regCheck.changed \cup {d} ELSE regCheck.changed]
     /\ regVersion' = IF d \in HasCfrTitle /\ d \in SourceEcfr /\ outcome = "changed"
                      THEN [regVersion EXCEPT ![d] = NewDate] ELSE regVersion
     /\ UNCHANGED <<regLatest, audit_events, wfVars, regFrame>>

\* after the loop: the updates are stored, embedded and audited (the last two
\* best effort); the evidence object written to R2 holds the same updates
RegStore(embedOk, auditOk) ==
  /\ regCheck.pc = "loop"
  /\ regCheck.i > Len(RegulatoryDomains)
  /\ regCheck' = [regCheck EXCEPT !.pc = "done"]
  /\ regLatest' = regCheck.updates \cup regLatest
  /\ vectorize' = IF embedOk
       THEN vectorize \cup {<<"reg", u.domain>> : u \in {x \in regCheck.updates :
                                                          x.type # "check_error"}}
       ELSE vectorize
  /\ audit_events' = IF auditOk
       THEN Append(audit_events, [event_type |-> "regulation_check", claim_id |-> "check"])
       ELSE audit_events
  /\ UNCHANGED <<regVersion, wf, r2Workflow, kvProof, regFrame>>


(***************************************************************************)
(* ProofAgent: the entry points of a verification, and scheduled tasks     *)
(***************************************************************************)
\* the verifyClaimInternal calls that may be in progress together
AgentRunIds == {"r1", "r2"}
\* the headers of a request that matter to the payment check
RequestHeaders == [payment : BOOLEAN, paymentTx : BOOLEAN, apiKey : BOOLEAN]
\* the model answers explored at these entry points
RunAnswers ==
  {a \in AgentAnswers :
     a.kind = "error" \/ (a.kind = "parsed" /\ a.verdict = "VERIFIED" /\ a.confidence = 100)}

\* checkX402Payment(request).paid
checkX402Payment(headers) ==
  IF ~headers.payment /\ ~headers.paymentTx THEN headers.apiKey ELSE TRUE

\* the 402 of handleVerify and of handleBatchVerify
paymentRequired(price) == [status |-> 402, price |-> price]

RunIdle == [pc |-> "idle", count |-> 0, entry |-> "-", checked |-> FALSE]

RunInit ==
  /\ agentRuns = [r \in AgentRunIds |-> RunIdle]
  /\ agentServed = <<>>
  /\ agentResponses = {}

runFrame == <<consVars, storeVars, audit_events, now, failures, queueVars, wfVars,
              hitlVars, gwVars, fleetVars, collVars, regVars>>

\* the verifications started so far
runsStarted ==
  Len(agentServed) + Cardinality({r \in AgentRunIds : agentRuns[r].pc # "idle"})

\* verifyClaimInternal up to its first await: `const state = this.getState()`
runCapture(entry, checked) ==
  [pc |-> "voting", count |-> agentState.verifications_count,
   entry |-> entry, checked |-> checked]

\* POST /v1/verify
handleVerify(r, headers) ==
  /\ agentRuns[r].pc = "idle"
  /\ runsStarted < MaxAgentRuns
  /\ IF checkX402Payment(headers)
     THEN /\ agentRuns' = [agentRuns EXCEPT ![r] = runCapture("/v1/verify", TRUE)]
          /\ UNCHANGED agentResponses
     ELSE /\ agentResponses' = agentResponses \cup {paymentRequired("0.01")}
          /\ UNCHANGED agentRuns
  /\ UNCHANGED <<agentServed, agentVars, taskVars, runFrame>>

\* POST /v1/batch-verify with one claim per run id: Promise.all starts every
\* verifyClaimInternal before any of them finishes
handleBatchVerify(headers) ==
  /\ \A r \in AgentRunIds : agentRuns[r].pc = "idle"
  /\ runsStarted + Cardinality(AgentRunIds) <= MaxAgentRuns
  /\ IF checkX402Payment(headers)
     THEN /\ agentRuns' = [r \in AgentRunIds |-> runCapture("/v1/batch-verify", TRUE)]
          /\ UNCHANGED agentResponses
     ELSE /\ agentResponses' = agentResponses \cup {paymentRequired("0.05")}
          /\ UNCHANGED agentRuns
  /\ UNCHANGED <<agentServed, agentVars, taskVars, runFrame>>

\* webSocketMessage with type 'verify', or type 'rpc' and method 'verify'
webSocketMessage(r, type) ==
  /\ agentRuns[r].pc = "idle"
  /\ runsStarted < MaxAgentRuns
  /\ agentRuns' = [agentRuns EXCEPT ![r] = runCapture(type, FALSE)]
  /\ UNCHANGED <<agentServed, agentResponses, agentVars, taskVars, runFrame>>

\* the history row of a result
historyRow(result) ==
  [id |-> result.claim_id, result |-> result.verdict,
   confidence |-> result.confidence, proof_hash |-> result.proof_hash,
   quorum |-> result.quorum, constitutional_halt |-> result.constitutional_halt]

\* verifyClaimInternal after the model calls: the history row is inserted and
\* the counter is set to the captured count plus one
RunFinish(r, a1, a2) ==
  LET result == verifyClaimInternal(AgentClaimIds[Len(verification_history) + 1], <<a1, a2>>)
  IN /\ agentRuns[r].pc = "voting"
     /\ verification_history' = Append(verification_history, historyRow(result))
     /\ agentState' = [agentState EXCEPT !.verifications_count = agentRuns[r].count + 1]
     /\ agentProofs' = agentProofs \cup {result}
     /\ agentServed' = Append(agentServed,
                         [entry |-> agentRuns[r].entry, checked |-> agentRuns[r].checked])
     /\ agentRuns' = [agentRuns EXCEPT ![r] = RunIdle]
     /\ UNCHANGED <<agentResponses, taskVars, runFrame>>

\* scheduled tasks: run_at is the text the request gave, or the current time
\* when it gave none.  Its kinds:
\*   "iso"      the text toISOString gives, e.g. '2026-11-06T10:00:00.000Z'
\*   "rfc"      a text Date parses but that is not of that form,
\*              e.g. 'Fri, 06 Nov 2026 10:00:00 GMT'
\*   "invalid"  a text Date cannot parse, e.g. 'tomorrow'
TaskIds == <<"t1", "t2">>
RunAtKinds == {"iso", "rfc", "invalid", "absent"}
AlarmBatch == 5       \* LIMIT 5
TaskTimes == 1..MaxAgentClock

NoTask == [status |-> "none", kind |-> "iso", time |-> 0, executions |-> 0]
NoAlarm == [armed |-> FALSE, at |-> 0]

TaskInit ==
  /\ scheduled_tasks = [i \in 1..Len(TaskIds) |-> NoTask]
  /\ agentAlarm = NoAlarm
  /\ alarmRun = [pc |-> "idle", todo |-> <<>>]
  /\ agentNow = 0

taskFrame == <<consVars, storeVars, audit_events, now, failures, queueVars, wfVars,
               hitlVars, gwVars, fleetVars, collVars, regVars>>

\* `run_at <= ?` with the ISO text of the current time: a comparison of texts
runAtDue(task) == task.kind = "iso" /\ task.time <= agentNow

\* the place of a pending row in ORDER BY run_at: digits sort before letters,
\* 'F' before 't'; rows of equal run_at in rowid order
runAtRank(i) ==
  LET task == scheduled_tasks[i]
  IN (IF task.kind = "iso" THEN task.time
      ELSE IF task.kind = "rfc" THEN MaxAgentClock + 1 ELSE MaxAgentClock + 2)
       * (Len(TaskIds) + 1) + i

RECURSIVE OrderByRunAt(_)
OrderByRunAt(rows) ==
  IF rows = {} THEN <<>>
  ELSE LET first == CHOOSE i \in rows : \A j \in rows : runAtRank(i) <= runAtRank(j)
       IN <<first>> \o OrderByRunAt(rows \ {first})

PendingRows == {i \in 1..Len(TaskIds) : scheduled_tasks[i].status = "pending"}

\* setAlarm(time); with a time that is not a number (Invalid Date) the call
\* either throws or arms the alarm for at once
setAlarm(valid, time, throws) ==
  IF valid THEN [armed |-> TRUE, at |-> time]
  ELSE IF throws THEN agentAlarm ELSE [armed |-> TRUE, at |-> agentNow]

\* POST /v1/agent/schedule
handleScheduleTask(i, kind, time, throws) ==
  LET runAtValid == kind # "invalid"
      runAt == IF kind = "absent" THEN agentNow + 1 ELSE time
  IN /\ scheduled_tasks[i].status = "none"
     /\ kind = "absent" => agentNow < MaxAgentClock
     /\ scheduled_tasks' = [scheduled_tasks EXCEPT ![i] =
          [status |-> "pending",
           kind |-> IF kind = "absent" THEN "iso" ELSE kind,
           time |-> IF kind = "absent" THEN agentNow ELSE time,
           executions |-> 0]]
     /\ agentAlarm' =
          IF ~agentAlarm.armed \/ (runAtValid /\ runAt < agentAlarm.at)
          THEN setAlarm(runAtValid, runAt, throws)
          ELSE agentAlarm
     /\ UNCHANGED <<alarmRun, agentNow, agentVars, runVars, taskFrame>>

\* alarm(), the query for the due tasks
AlarmSelect ==
  LET due == OrderByRunAt({i \in PendingRows : runAtDue(scheduled_tasks[i])})
  IN /\ agentAlarm.armed
     /\ agentAlarm.at <= agentNow
     /\ alarmRun.pc = "idle"
     /\ agentAlarm' = NoAlarm
     /\ alarmRun' = [pc |-> "tasks",
                     todo |-> IF Len(due) > AlarmBatch THEN SubSeq(due, 1, AlarmBatch) ELSE due]
     /\ UNCHANGED <<scheduled_tasks, agentNow, agentVars, runVars, taskFrame>>

\* alarm(), the loop body for one task with callback 'verify': the claim is
\* verified and the task completed, or the verification throws and it is failed
AlarmTask(ok, a1, a2) ==
  LET i == Head(alarmRun.todo)
      result == verifyClaimInternal(AgentClaimIds[Len(verification_history) + 1], <<a1, a2>>)
  IN /\ alarmRun.pc = "tasks"
     /\ alarmRun.todo # <<>>
     /\ alarmRun' = [alarmRun EXCEPT !.todo = Tail(alarmRun.todo)]
     /\ scheduled_tasks' = [scheduled_tasks EXCEPT
          ![i].status = IF ok THEN "completed" ELSE "failed",
          ![i].executions = scheduled_tasks[i].executions + 1]
     /\ IF ok
        THEN /\ verification_history' = Append(verification_history, historyRow(result))
             /\ agentState' = [agentState EXCEPT !.verifications_count = @ + 1]
             /\ agentProofs' = agentProofs \cup {result}
             /\ agentServed' = Append(agentServed, [entry |-> "alarm", checked |-> FALSE])
        ELSE UNCHANGED <<agentVars, agentServed>>
     /\ UNCHANGED <<agentAlarm, agentNow, agentRuns, agentResponses, taskFrame>>

\* alarm(), after the loop: with a task still pending the alarm is set again
AlarmRearm(throws) ==
  LET pending == OrderByRunAt(PendingRows)
      next == scheduled_tasks[Head(pending)]
      nextRunAt == IF next.time > agentNow THEN next.time ELSE agentNow
  IN /\ alarmRun.pc = "tasks"
     /\ alarmRun.todo = <<>>
     /\ alarmRun' = [pc |-> "idle", todo |-> <<>>]
     /\ agentAlarm' = IF pending = <<>> THEN agentAlarm
                      ELSE setAlarm(next.kind # "invalid", nextRunAt, throws)
     /\ UNCHANGED <<scheduled_tasks, agentNow, agentVars, runVars, taskFrame>>

\* time passes at the agent
AgentTick ==
  /\ agentNow < MaxAgentClock
  /\ agentNow' = agentNow + 1
  /\ UNCHANGED <<scheduled_tasks, agentAlarm, alarmRun, agentVars, runVars, taskFrame>>

\* time passes
Tick ==
  /\ now < MaxClock
  /\ now' = now + 1
  /\ UNCHANGED <<consVars, storeVars, audit_events, failures, queueVars, wfVars, agentVars, hitlVars, extVars>>

\* time passes between the steps of a workflow
WorkflowTick ==
  /\ now < MaxWfClock
  /\ now' = now + 1
  /\ UNCHANGED <<consVars, storeVars, audit_events, failures, queueVars, wfVars, agentVars, hitlVars, extVars>>

vars == <<votes, consensus, voters, submits, lastResult,
          r2Claim, kvClaim, verification_proofs, audit_events, now, failures,
          queue, handling, pipelineSubmits, wf, r2Workflow, kvProof, vectorize,
          agentState, verification_history, agentProofs,
          hitl, hitlEvents, kvPending, pendingIndex, r2Hitl, kvHitlProof, reviewCalls,
          gwUsage, gwInflight, gwServed, gwResponses,
          fleetFailures, fleetRuns, fleetStreak, fleetLog, fleetChecks, kvAlerts,
          hubSent, hubChecked,
          coll, collShards, collProof,
          regCheck, regVersion, regLatest,
          agentRuns, agentServed, agentResponses,
          scheduled_tasks, agentAlarm, alarmRun, agentNow>>

\* POST /consensus/vote for claim c1
PostVote ==
  /\ submits["c1"] < MaxSubmits
  /\ \E m \in ModelIds, v \in SubmitVerdicts, k \in Confidences :
        handleConsensusVote("c1", m, [verdict |-> v, confidence |-> k])
  /\ UNCHANGED <<audit_events, now, failures, queueVars, wfVars, agentVars, hitlVars, extVars>>

\* POST /consensus/vote for either claim, two sessions side by side
PostVotePair ==
  /\ \E c \in Claims :
      /\ submits[c] < MaxPairSubmits
      /\ \E m \in ModelIds, v \in SubmitVerdicts, k \in PairConfidences :
            handleConsensusVote(c, m, [verdict |-> v, confidence |-> k])
  /\ UNCHANGED <<audit_events, now, failures, queueVars, wfVars, agentVars, hitlVars, extVars>>

\* POST /consensus/vote with whatever the caller puts into the vote object:
\* the handler requires only that claim_id, model_id and vote are present
AnyVerdicts == {"VERIFIED", "ERROR", "MAYBE"}
AnyConfidences == {75, 150}
PostAnyVote ==
  /\ submits["c1"] < MaxOpenSubmits
  /\ \E m \in ModelIds, v \in AnyVerdicts, k \in AnyConfidences :
        handleConsensusVote("c1", m, [verdict |-> v, confidence |-> k])
  /\ UNCHANGED <<audit_events, now, failures, queueVars, wfVars, agentVars, hitlVars, extVars>>

\* POST /consensus/vote for claim c1 while its pipeline runs and after it
PostLateVote ==
  /\ submits["c1"] < MaxLateSubmits
  /\ \E m \in ModelIds, v \in SubmitVerdicts, k \in PairConfidences :
        handleConsensusVote("c1", m, [verdict |-> v, confidence |-> k])
  /\ UNCHANGED <<audit_events, now, failures, queueVars, wfVars, agentVars, hitlVars, extVars>>

\* POST /consensus/vote for claim c1 by four models
FourModelIds == ModelIds \cup {"m4"}
PostVoteOfFour ==
  /\ submits["c1"] < MaxFourSubmits
  /\ \E m \in FourModelIds, v \in SubmitVerdicts :
        handleConsensusVote("c1", m, [verdict |-> v, confidence |-> 75])
  /\ UNCHANGED <<audit_events, now, failures, queueVars, wfVars, agentVars, hitlVars, extVars>>

ExtInit == GwInit /\ FleetInit /\ CollInit /\ RegInit /\ RunInit /\ TaskInit

Init ==
  /\ ConsInit /\ StoreInit /\ QueueInit /\ WfInit /\ AgentInit /\ HitlInit
  /\ ExtInit

Next == PostVote
Spec == Init /\ [][Next]_vars

NextPair == PostVotePair
SpecPair == Init /\ [][NextPair]_vars

PipelineSubmit == handlePipelineSubmit("c1")
Deliver == \E m \in Messages : ProcessStage(m)
DeliverThrows == \E m \in Messages : ProcessThrows(m)
SignCacheThrows == \E m \in Messages : ProcessSignCacheThrows(m)
Audit == \E m \in Messages : AuditStage(m)
AuditFails == \E m \in Messages : AuditThrows(m)

NextQueue ==
  \/ PipelineSubmit
  \/ Deliver
  \/ DeliverThrows
  \/ SignCacheThrows
  \/ Audit
  \/ AuditFails
  \/ Tick
SpecQueue == Init /\ [][NextQueue]_vars

WorkflowSubmit == handleSubmit("c1")
WorkflowStep ==
  \/ SanitizeStep("c1")
  \/ EmbedStep("c1")
  \/ SearchStep("c1")
  \/ VerifyStep("c1")
  \/ DetectStep("c1")
WorkflowStepThrows == StepThrows("c1")
WorkflowSign == SignStep("c1")
WorkflowSignThrows == SignThrows("c1")

NextWorkflow ==
  \/ WorkflowSubmit
  \/ WorkflowStep
  \/ WorkflowStepThrows
  \/ WorkflowSign
  \/ WorkflowSignThrows
  \/ WorkflowTick
SpecWorkflow == Init /\ [][NextWorkflow]_vars

NextAgent ==
  \/ AgentVerify
  \/ Tick
SpecAgent == Init /\ [][NextAgent]_vars

\* the consensus endpoint with four voting models
NextFour == PostVoteOfFour
SpecFour == Init /\ [][NextFour]_vars

\* the revenue gateway serving one anonymous address
GatewayRead == \E q \in GwRequests : GwAnonRead(q)
GatewayWrite == \E q \in GwRequests : GwAnonWrite(q)
NextGateway ==
  \/ GatewayRead
  \/ GatewayWrite
SpecGateway == Init /\ [][NextGateway]_vars

\* the fleet monitor's health checks and the notification hub's cron
FleetBegin ==
  \E k \in FleetCheckIds, results \in [FleetWorkers -> FleetStatuses] : FleetProbe(k, results)
FleetLoop == \E k \in FleetCheckIds : FleetCount(k) \/ FleetPut(k)
FleetEnd == \E k \in FleetCheckIds : FleetStore(k)
NextFleet ==
  \/ FleetBegin
  \/ FleetLoop
  \/ FleetEnd
  \/ HubScheduled
SpecFleet == Init /\ [][NextFleet]_vars
\* the hub's cron keeps running
SpecFleetLive == SpecFleet /\ WF_vars(HubScheduled)

\* one instance of the collective workflow
CollectiveSubmit == \E v \in Verticals : CollRoute(v)
CollectiveAnalysis ==
  \E parsed \in BOOLEAN, answer \in CollAnswers : CollDomainAnalysis(parsed, answer)
CollectiveStep ==
  \/ CollConstitutionalHalt
  \/ CollExtractShards
  \/ \E ok \in BOOLEAN : CollStoreShards(ok)
  \/ \E ok \in BOOLEAN : CollQueryCollective(ok)
  \/ \E ok \in BOOLEAN : CollAudit(ok)
CollectiveProof == CollStoreProof
NextCollective ==
  \/ CollectiveSubmit
  \/ CollectiveAnalysis
  \/ CollectiveStep
  \/ CollectiveProof
SpecCollective == Init /\ [][NextCollective]_vars

\* one regulation check
RegulationCheck == RegBegin
RegulationDomain == \E outcome \in RegOutcomes : RegDomain(outcome)
RegulationStore == \E embedOk \in BOOLEAN, auditOk \in BOOLEAN : RegStore(embedOk, auditOk)
NextRegulation ==
  \/ RegulationCheck
  \/ RegulationDomain
  \/ RegulationStore
SpecRegulation == Init /\ [][NextRegulation]_vars

\* the entry points of the ProofAgent that verify a claim
AgentVerifyRequest ==
  \E r \in AgentRunIds, headers \in RequestHeaders : handleVerify(r, headers)
AgentBatchRequest == \E headers \in RequestHeaders : handleBatchVerify(headers)
AgentSocketMessage == \E r \in AgentRunIds, type \in {"ws:verify", "ws:rpc"} : webSocketMessage(r, type)
AgentRunFinish == \E r \in AgentRunIds, a1 \in RunAnswers, a2 \in RunAnswers : RunFinish(r, a1, a2)
NextAgentRuns ==
  \/ AgentVerifyRequest
  \/ AgentBatchRequest
  \/ AgentSocketMessage
  \/ AgentRunFinish
SpecAgentRuns == Init /\ [][NextAgentRuns]_vars

\* the schedule endpoint and the alarm of the ProofAgent
AgentSchedule ==
  \E i \in 1..Len(TaskIds), kind \in RunAtKinds, time \in TaskTimes, throws \in BOOLEAN :
     handleScheduleTask(i, kind, time, throws)
AlarmStep == \E ok \in BOOLEAN, a1 \in RunAnswers, a2 \in RunAnswers : AlarmTask(ok, a1, a2)
AlarmEnd == \E throws \in BOOLEAN : AlarmRearm(throws)
NextSchedule ==
  \/ AgentSchedule
  \/ AlarmSelect
  \/ AlarmStep
  \/ AlarmEnd
  \/ AgentTick
SpecSchedule == Init /\ [][NextSchedule]_vars
\* the clock advances and the runtime runs the alarm handler
SpecScheduleLive ==
  /\ SpecSchedule
  /\ WF_vars(AgentTick) /\ WF_vars(AlarmSelect) /\ WF_vars(AlarmStep) /\ WF_vars(AlarmEnd)

\* the consensus endpoint with unchecked vote contents
NextOpen == PostAnyVote
SpecOpen == Init /\ [][NextOpen]_vars

\* the queue pipeline running to its end, with votes posted before and after
NextSealed ==
  \/ PipelineSubmit
  \/ Deliver
  \/ Audit
  \/ PostLateVote
SpecSealed == Init /\ [][NextSealed]_vars

\* the workflow up to its detect step, without failures
NextDetect ==
  \/ WorkflowSubmit
  \/ WorkflowStep
SpecDetect == Init /\ [][NextDetect]_vars

\* one claim through the HITL workflow, every screening outcome, with the
\* reviewer's calls
HitlSubmit ==
  \E k \in HitlClaimKinds, p \in Priorities, t \in HaltThresholds :
     hitlSubmit("c1", k, p, t)
HitlScreening ==
  \/ HitlPreScreen("c1", Screenings)
  \/ HitlRiskAssessment("c1")
  \/ HitlAuditScreening("c1")
HitlScreeningThrows == HitlPreScreenThrows("c1")
HitlOpenTicket ==
  \/ HitlCachePending("c1")
  \/ HitlCachePendingIndex("c1")
HitlResolve ==
  \/ HitlReceiveEvent("c1")
  \/ HitlCleanup("c1")
HitlExpire == HitlWaitTimesOut("c1")
HitlFinish ==
  \/ HitlSignProof("c1")
  \/ HitlAuditDecision("c1")
HitlApprove == hitlApprove("c1")
HitlReject == hitlReject("c1")

NextHitl ==
  \/ HitlSubmit
  \/ HitlScreening
  \/ HitlScreeningThrows
  \/ HitlOpenTicket
  \/ HitlResolve
  \/ HitlFinish
  \/ HitlApprove
  \/ HitlReject
SpecHitl == Init /\ [][NextHitl]_vars

\* one claim through the HITL workflow while no reviewer ever decides
NextHitlExpiry ==
  \/ HitlSubmit
  \/ HitlScreening
  \/ HitlOpenTicket
  \/ HitlExpire
  \/ HitlFinish
  \/ Tick
SpecHitlExpiry == Init /\ [][NextHitlExpiry]_vars

\* two claims that need review go through the HITL workflow side by side
HitlPairSubmit ==
  \E c \in Claims :
     hitlSubmit(c, [condition |-> "ptsd", type |-> "tdiu"], "normal",
                DefaultHaltThreshold)
HitlPairScreening ==
  \E c \in Claims :
    \/ HitlPreScreen(c, {ParseFailureScreening})
    \/ HitlRiskAssessment(c)
    \/ HitlAuditScreening(c)
HitlPairOpenTicket ==
  \E c \in Claims :
    \/ HitlCachePending(c)
    \/ HitlCachePendingIndex(c)
HitlPairResolve ==
  \E c \in Claims :
    \/ HitlReceiveEvent(c)
    \/ HitlCleanup(c)
HitlPairFinish ==
  \E c \in Claims :
    \/ HitlSignProof(c)
    \/ HitlAuditDecision(c)
HitlPairApprove == \E c \in Claims : hitlApprove(c)
HitlPairReject == \E c \in Claims : hitlReject(c)

NextHitlPair ==
  \/ HitlPairSubmit
  \/ HitlPairScreening
  \/ HitlPairOpenTicket
  \/ HitlPairResolve
  \/ HitlPairFinish
  \/ HitlPairApprove
  \/ HitlPairReject
SpecHitlPair == Init /\ [][NextHitlPair]_vars

(***************************************************************************)
(* Properties                                                              *)
(***************************************************************************)
\* the verdict tags a model can return
ModelVerdicts == {"VERIFIED", "UNVERIFIED", "INSUFFICIENT_EVIDENCE", "NEEDS_REVIEW"}

StoredBundles == {JSON_parse(o.body) : o \in r2Workflow}

\* C1: in every consensus snapshot and verification result, a set halt flag
\* (variance / constitutional halt) means the reported verdict is a halt, never
\* a model verdict such as VERIFIED.
C1_HaltFlagMeansHaltVerdict ==
  /\ \A c \in Claims :
        consensus[c].halt_triggered => consensus[c].verdict \notin ModelVerdicts
  /\ \A r \in agentProofs :
        r.constitutional_halt => r.verdict \notin ModelVerdicts
  /\ \A b \in StoredBundles :
        Truthy(b.steps.verify, "constitutional_halt") => b.verdict \notin ModelVerdicts

\* C2: a model verdict is returned as the final verdict only when the quorum
\* (BFT) was reached and no halt flag is set; otherwise the verdict is a halt.
C2_ModelVerdictOnlyWithQuorumAndNoHalt ==
  /\ \A r \in agentProofs :
        r.verdict \in ModelVerdicts => r.quorum /\ ~r.constitutional_halt
  /\ \A c \in Claims :
        (wf[c].status = "complete" /\ wf[c].proof.verdict \in ModelVerdicts)
          => /\ Truthy(wf[c].verification, "consensus_reached")
             /\ ~Truthy(wf[c].verification, "constitutional_halt")

\* C3: with fewer than 3 valid votes BFT is never reached: the session status
\* is not CONSENSUS and the workflow's consensus_reached is not true.
C3_NoConsensusBelowThreeVotes ==
  /\ \A c \in Claims :
        consensus[c].total_votes < 3 => consensus[c].status # "CONSENSUS"
  /\ \A c \in Claims :
        (Has(wf[c].verification, "votes") /\ Len(wf[c].verification.votes) < 3)
          => ~Truthy(wf[c].verification, "consensus_reached")

\* C4: a snapshot whose agreement is exactly 2/3 of the votes is not a
\* CONSENSUS: the quorum test is strict above 2/3.
C4_ExactTwoThirdsIsNotConsensus ==
  \A c \in Claims :
    (consensus[c].total_votes > 0
       /\ 3 * consensus[c].majority_count = 2 * consensus[c].total_votes)
      => consensus[c].status # "CONSENSUS"

\* C4 witness: three votes, two of them agreeing, and the snapshot computed.
C4_Witness ==
  \E c \in Claims :
    /\ consensus[c].total_votes = 3
    /\ consensus[c].majority_count = 2
    /\ consensus[c].status = "DISAGREEMENT"

\* the workflow's agreement ratio is never exactly 2/3 with its two models
WfAgreementIsNeverTwoThirds ==
  \A c \in Claims :
    Has(wf[c].verification, "agreement_ratio")
      => 3 * wf[c].verification.agreement_ratio[1]
           # 2 * wf[c].verification.agreement_ratio[2]

FinalVotes(c) == {votes[c][i] : i \in 1..Len(votes[c])}

\* C5: the snapshot of a session depends only on the final vote of each model:
\* two sessions holding the same final votes hold the same snapshot.
C5_SnapshotDependsOnlyOnFinalVotes ==
  \A c \in Claims, d \in Claims :
    FinalVotes(c) = FinalVotes(d) => consensus[c] = consensus[d]

\* C6: after every submitVote the stored snapshot is the consensus of the
\* current votes table, the table holds at most one vote per model id, and
\* total_votes is the number of distinct model ids that have voted.
C6_SnapshotReflectsVotes ==
  \A c \in Claims :
    /\ submits[c] > 0 =>
         /\ consensus[c] \in
              {calculateConsensus(o) : o \in OrderByConfidenceDesc(votes[c])}
         /\ lastResult[c].consensus = consensus[c]
         /\ lastResult[c].total_votes = Cardinality(voters[c])
    /\ \A i \in 1..Len(votes[c]) : \A j \in 1..Len(votes[c]) :
         i # j => votes[c][i].model_id # votes[c][j].model_id
    /\ getState(c).total_votes = Cardinality(voters[c])
    /\ consensus[c].total_votes = Cardinality(voters[c])

\* C6 witness: a model has overwritten its vote in a session with two voters.
C6_Witness ==
  \E c \in Claims :
    /\ Cardinality(voters[c]) = 2
    /\ submits[c] > 2
    /\ consensus[c].total_votes = 2

StageEventCount(c, st) ==
  Cardinality({i \in 1..Len(audit_events) :
     audit_events[i] = [event_type |-> StageEvent(st), claim_id |-> c]})

\* C7: no stage runs twice: at most one stage-complete audit event per stage
\* exists for a claim.
C7_OneStageCompleteEventPerStage ==
  \A c \in Claims : \A st \in StageSet : StageEventCount(c, st) <= 1

IsStageEvent(e) == \E st \in StageSet : e.event_type = StageEvent(st)
EventStage(e) == CHOOSE st \in StageSet : e.event_type = StageEvent(st)

\* C8: the stage-complete events of a claim are a strictly increasing prefix
\* of the stage order: the k-th one recorded is that of the k-th stage.
C8_StageCompleteEventsInStageOrder ==
  \A i \in 1..Len(audit_events) :
    IsStageEvent(audit_events[i]) =>
      StageIndex(EventStage(audit_events[i])) =
        1 + Cardinality({j \in 1..(i-1) :
              /\ IsStageEvent(audit_events[j])
              /\ audit_events[j].claim_id = audit_events[i].claim_id})

WorkflowProofs(c) == {o \in r2Workflow : o.key.claim_id = c}

\* C9: running sign-and-archive again leaves a single proof record: an
\* instance never has more than one, and a completed one has exactly one.
C9_SignRetryLeavesOneProofRecord ==
  \A c \in Claims :
    /\ Cardinality(WorkflowProofs(c)) <= 1
    /\ wf[c].status = "complete" => Cardinality(WorkflowProofs(c)) = 1

\* every proof record of the workflow recomputes to its proof_hash
WfStoredHashRecomputes ==
  \A o \in r2Workflow : RecomputedHash(o.body) = JSON_parse(o.body).proof_hash

\* C10: the proof_hash of every stored proof record is the SHA-256 of that
\* record with the proof_hash member removed.
C10_StoredProofHashIsHashOfRecord ==
  /\ \A c \in Claims :
        Has(JSON_parse(r2Claim[c]), "proof_hash")
          => RecomputedHash(r2Claim[c]) = JSON_parse(r2Claim[c]).proof_hash
  /\ WfStoredHashRecomputes

\* C11: the proof chain is a linear history: every stored proof record carries
\* a previous_hash, which is the genesis hash or the proof_hash of another
\* stored record.
C11_ProofRecordsAreChained ==
  \A o \in r2Workflow :
    LET b == JSON_parse(o.body)
    IN /\ Has(b, "previous_hash")
       /\ \/ b.previous_hash = "genesis"
          \/ \E p \in r2Workflow : JSON_parse(p.body).proof_hash = b.previous_hash

\* C12: a proof record, once written for a claim, is never overwritten: no
\* later operation changes the object stored under the claim's key.
C12_ProofRecordNeverOverwritten ==
  [][\A c \in Claims : r2Claim[c] # NoObject => r2Claim'[c] = r2Claim[c]]_vars

\* C19: a stage is retried at most its limit, and an instance that failed
\* after its retries were exhausted has no proof record and ran no later stage.
C19_ExhaustedRetriesLeaveNoProof ==
  \A c \in Claims :
    /\ wf[c].status = "running" => wf[c].attempts <= RetryLimit(WfSteps[wf[c].step])
    /\ wf[c].status = "errored" =>
         /\ WorkflowProofs(c) = {}
         /\ wf[c].proof = NoOutput
         /\ kvProof[c] = NoObject

\* C20: the pipeline reports success only after its proof-signed audit event
\* has been written: a completed instance has its WORKFLOW_COMPLETE row.
C20_SuccessOnlyAfterAuditWritten ==
  \A c \in Claims :
    wf[c].status = "complete" =>
      \E i \in 1..Len(audit_events) : audit_events[i] = WorkflowCompleteEvent(c)

\* the HITL instance ended with a rejection or with its ticket expired
HitlHalted(c) ==
  \/ hitl[c].status = "complete" /\ hitl[c].output.status = "rejected"
  \/ hitl[c].timedOut

\* C13: every halt ends with a proof record being written: a rejected or
\* expired HITL claim has a proof stored for it.
C13_HaltLeavesHaltProof ==
  \A c \in Claims :
    HitlHalted(c) =>
      \/ kvHitlProof[c] # NoObject
      \/ \E o \in r2Hitl : o.key.claim_id = c

\* C14: once a decision was accepted for a ticket, every further approve or
\* reject call for it is answered with already-resolved.
C14_SecondDecisionIsRejected ==
  \A j \in 1..Len(reviewCalls) :
    reviewCalls[j].resolved => reviewCalls[j].response = "already-resolved"

\* the decision of an instance, once taken, is never replaced
HitlDecisionIsFinal ==
  [][\A c \in Claims : hitl[c].decision # NoOutput
        => hitl'[c].decision = hitl[c].decision]_vars

\* a claim assessed as high or critical, with its halt flag set or with high
\* priority requires human review and is not given the synthetic approval
ReviewsHighRisk(c) ==
  (/\ hitl[c].risk # NoOutput
   /\ \/ hitl[c].risk.risk_level \in {"high", "critical"}
      \/ hitl[c].risk.halt_triggered
      \/ hitl[c].priority = "high")
    => /\ hitl[c].risk.requires_human_review
       /\ ~Truthy(hitl[c].decision, "auto")

\* C15: a claim whose risk level is high or critical, whose halt flag is set
\* or whose priority is high requires human review, for every configured
\* halt threshold, and is never given the synthetic approval.
C15_HighRiskRequiresReview == \A c \in Claims : ReviewsHighRisk(c)

\* C16: a ticket whose deadline passed without a decision resumes its
\* instance with the synthetic decision expired; the instance does not fail.
C16_ExpiredTicketResumesInstance ==
  \A c \in Claims :
    hitl[c].timedOut =>
      /\ hitl[c].status # "errored"
      /\ Has(hitl[c].decision, "decision")
      /\ hitl[c].decision.decision = "expired"

HitlGateSteps ==
  {"cache-pending-review", "cache-pending-index", "human-approval", "cleanup-pending"}

\* C17: a claim that needs no human review creates no pending entry and never
\* waits, and a signed proof has auto_approved = true exactly when the claim
\* bypassed the gate with the synthetic approval.
C17_LowRiskSkipsTicket ==
  \A c \in Claims :
    /\ (hitl[c].risk # NoOutput /\ ~hitl[c].risk.requires_human_review) =>
          /\ kvPending[c] = NoObject
          /\ \A i \in 1..Len(pendingIndex) : pendingIndex[i].claimId # c
          /\ hitl[c].at \notin HitlGateSteps
    /\ hitl[c].proof # NoOutput =>
          /\ hitl[c].proof.auto_approved <=> ~hitl[c].risk.requires_human_review
          /\ JSON_parse(kvHitlProof[c]).auto_approved = hitl[c].proof.auto_approved

\* C17 witness: a claim that needed no review has its signed proof.
C17_Witness ==
  /\ hitl["c1"].proof # NoOutput
  /\ ~hitl["c1"].risk.requires_human_review
  /\ hitl["c1"].proof.auto_approved

PendingClaimIds == {listPending[i].claimId : i \in 1..Len(listPending)}

\* C18: every ticket still awaiting its decision is returned by list pending,
\* also when several workflows open tickets side by side, and a resolved
\* ticket is not returned.
C18_AwaitingTicketsAreListed ==
  \A c \in Claims :
    /\ HitlAt(c, "human-approval") => c \in PendingClaimIds
    /\ hitl[c].status = "complete" => c \notin PendingClaimIds

\* with the default threshold every high or critical claim requires review
HighRiskRequiresReviewByDefault ==
  \A c \in Claims :
    hitl[c].haltThreshold = DefaultHaltThreshold => ReviewsHighRisk(c)

\* C22: the consensus the consensus-state endpoint returns for a claim is the
\* consensus computed from all the votes stored for that claim.
C22_StateReturnsCurrentSnapshot ==
  \A c \in Claims :
    votes[c] # <<>> =>
      handleConsensusState(c).consensus \in
        {calculateConsensus(o) : o \in OrderByConfidenceDesc(votes[c])}

\* C23: when the standard deviation of the confidences equals 0.25 exactly,
\* the halt flag of the snapshot is set.
C23_HaltAtExactDeviation ==
  \A c \in Claims :
    (/\ consensus[c].total_votes > 0
     /\ consensus[c].sq_dev =
          HaltStdDev * HaltStdDev * consensus[c].total_votes * consensus[c].total_votes)
      => consensus[c].halt_triggered

\* C25: a session whose votes all have confidence 1.0 never has its halt
\* flag set, whatever the number of votes and their verdicts.
C25_AllCertainNeverHalts ==
  \A c \in Claims :
    (/\ votes[c] # <<>>
     /\ \A i \in 1..Len(votes[c]) : votes[c][i].confidence = 100)
      => /\ ~consensus[c].halt_triggered
         /\ ~lastResult[c].consensus.halt_triggered

\* C25 witness: three votes of confidence 1.0 with differing verdicts.
C25_Witness ==
  /\ Len(votes["c1"]) = 3
  /\ \A i \in 1..3 : votes["c1"][i].confidence = 100
  /\ \E i, j \in 1..3 : votes["c1"][i].verdict # votes["c1"][j].verdict
  /\ consensus["c1"].total_votes = 3

\* the verdict tags of the submitted votes, in lexicographic order
TagOrder == <<"UNVERIFIED", "VERIFIED">>
TagRank(v) == CHOOSE i \in 1..Len(TagOrder) : TagOrder[i] = v

\* the verdicts with the highest count among the rows
TopVerdicts(rows) ==
  {rows[i].verdict : i \in
     {i \in 1..Len(rows) :
        \A j \in 1..Len(rows) :
          CountVerdict(rows, rows[j].verdict) <= CountVerdict(rows, rows[i].verdict)}}

\* C29: when two or more verdicts tie for the highest count, the majority
\* verdict of the snapshot is the lexicographically smallest of them.
C29_TieGoesToSmallestTag ==
  \A c \in Claims :
    (votes[c] # <<>> /\ Cardinality(TopVerdicts(votes[c])) >= 2)
      => \A v \in TopVerdicts(votes[c]) :
            TagRank(consensus[c].verdict) <= TagRank(v)

\* C24: when the screening confidence equals the configured halt threshold
\* exactly, the halt flag of the risk assessment is set.
C24_HaltAtExactThreshold ==
  \A c \in Claims :
    (/\ hitl[c].risk # NoOutput
     /\ hitl[c].risk.screening_summary.confidence = hitl[c].haltThreshold)
      => hitl[c].risk.halt_triggered

\* C21: a cache write that fails never fails or re-runs a stage: once the
\* proof object of a claim is archived, sign-and-archive is not due again
\* and the instance has not failed.
C21_CacheFailureNeverRerunsStage ==
  \A c \in Claims :
    WorkflowProofs(c) # {} =>
      /\ wf[c].status # "errored"
      /\ ~(wf[c].status = "running" /\ WfSteps[wf[c].step] = "sign-and-archive")

\* the verdict tags of the closed set
ClosedVerdicts ==
  {"VERIFIED", "UNVERIFIED", "INSUFFICIENT_EVIDENCE", "NEEDS_REVIEW", "ERROR"}

\* C26: a vote whose confidence is outside [0,1] or whose verdict is outside
\* the closed set is refused: every vote stored for a session has its
\* confidence in [0,1] and its verdict in the closed set.
C26_OnlyValidVotesAreStored ==
  \A c \in Claims : \A i \in 1..Len(votes[c]) :
    /\ votes[c][i].confidence \in 0..100
    /\ votes[c][i].verdict \in ClosedVerdicts

\* the votes of a session that are not error votes
ValidVotes(c) == SelectSeq(votes[c], LAMBDA r : r.verdict # "ERROR")

\* C28: votes with the verdict error are excluded from the valid set: they
\* count neither toward the vote total nor toward the majority, the mean
\* confidence or the deviation of the snapshot.
C28_ErrorVotesAreExcluded ==
  \A c \in Claims :
    votes[c] # <<>> =>
      /\ consensus[c].total_votes = Len(ValidVotes(c))
      /\ consensus[c].verdict # "ERROR"
      /\ consensus[c].total_confidence = SumConf(ValidVotes(c))
      /\ consensus[c].sq_dev = SqDev(ValidVotes(c))

\* the queue pipeline of the claim has completed its last stage
PipelineComplete(c) == StageEventCount(c, "SIGN") > 0

\* C27: once the pipeline of a claim has completed, the session is sealed:
\* its votes and its snapshot no longer change.
C27_SealedSessionRefusesVotes ==
  [][\A c \in Claims :
       PipelineComplete(c) =>
         /\ votes'[c] = votes[c]
         /\ consensus'[c] = consensus[c]]_vars

\* the five trust flags raised for a verify output and an embedding result
RaisedFlags(v, e) ==
  {k \in 1..5 :
     \/ k = 1 /\ Truthy(v, "constitutional_halt")
     \/ k = 2 /\ ~Truthy(v, "consensus_reached")
     \/ k = 3 /\ Has(v, "weighted_confidence")
              /\ v.weighted_confidence[1] < 50 * v.weighted_confidence[2]
     \/ k = 4 /\ Has(v, "sq_dev") /\ v.sq_dev > 900 * Len(v.votes) * Len(v.votes)
     \/ k = 5 /\ e.claim_evidence_similarity < 40}

\* C30: the trust score of the detect step is max(0, 1 - 0.2 * flags) for the
\* number of raised trust flags, lies in [0,1], and a halt is required
\* exactly when the trust is low (below 0.5), the variance halt is set or at
\* least three flags are raised.
C30_TrustScoreAndHaltFromFlags ==
  \A c \in Claims :
    wf[c].detection # NoOutput =>
      LET d == wf[c].detection
          n == Cardinality(RaisedFlags(wf[c].verification, wf[c].embeddings))
      IN /\ d.flag_count = n
         /\ d.trust_score = (IF 100 - 20 * n > 0 THEN 100 - 20 * n ELSE 0)
         /\ d.trust_score \in 0..100
         /\ Truthy(d, "halt_required") <=>
               \/ d.trust_score < 50
               \/ Truthy(wf[c].verification, "constitutional_halt")
               \/ n >= 3

\* C30 witness: a detect output with fewer than three flags whose halt comes
\* from the variance halt alone.
C30_Witness ==
  /\ wf["c1"].detection # NoOutput
  /\ wf["c1"].detection.flag_count < 3
  /\ Truthy(wf["c1"].verification, "constitutional_halt")
  /\ Truthy(wf["c1"].detection, "halt_required")

\* C31: a session tolerates fault_tolerance = floor((n-1)/3) dissenting
\* votes: whenever at most that many votes differ from the majority verdict
\* the status is CONSENSUS.
C31_ToleratesFaultyVotes ==
  \A c \in Claims :
    (/\ consensus[c].total_votes > 0
     /\ consensus[c].total_votes - consensus[c].majority_count
          <= consensus[c].fault_tolerance)
      => consensus[c].status = "CONSENSUS"

\* C32: every 402 payment-required response the gateway gives carries the
\* headers X-Price and X-Currency.
C32_PaymentRequiredCarriesPrice ==
  \A r \in gwResponses :
    r.status = 402 => {"X-Price", "X-Currency"} \subseteq r.headers

\* C33: an anonymous address is never given more than 10 demo answers in one
\* day, also when its requests arrive together.
C33_AnonymousQuotaIsHardCap == gwServed <= AnonDailyLimit

\* C34: the fleet health monitor pushes an alert for a worker exactly when that
\* worker has failed 3 or more health checks in a row
C34_AlertExactlyAtThreeFailures ==
  \A e \in fleetLog : e.alerted <=> e.streak >= ConsecutiveFailures

\* C35: pending alerts stored by the fleet health monitor are eventually sent by
\* the notification hub through the channels of their priority
C35_PendingAlertsAreSent ==
  (kvAlerts["fleet:pending_alerts"].kind # "null")
     ~> (\A a \in kvAlerts["fleet:pending_alerts"].alerts :
            \E n \in hubSent : n.worker = a.worker /\ n.channels = getDefaultChannels("P0"))

\* C36: in the collective workflow a claim whose confidence is below the halt
\* threshold of its vertical is refused: halt_triggered is true, neither the
\* returned status nor the stored proof recommends approve, and none of its
\* shards is in the vector index
C36_HaltedClaimIsRefused ==
  (coll.pc = "complete" /\ coll.output.confidence < halt_threshold[coll.vertical])
     => /\ coll.output.halt_triggered
        /\ coll.output.status # "approve"
        /\ collProof.stored /\ collProof.data.recommendation # "approve"
        /\ collShards = {}

\* C37: a regulation check examines every tracked domain (its change check runs
\* or a check_error update is recorded), and a detected change of a domain
\* yields a cross_domain_impact update for every symbiosis rule it triggers
C37_EveryDomainExaminedAndImpactsRecorded ==
  regCheck.pc = "done" =>
     /\ \A d \in DomainKeys :
           d \in regCheck.examined \/ regUpdate(d, "check_error", "-") \in regLatest
     /\ \A d \in regCheck.changed : \A rule \in SYMBIOSIS_MAP :
           rule[1] = d => regUpdate(d, "cross_domain_impact", rule[2]) \in regLatest

\* C38: when no verification is in progress, verifications_count equals the
\* number of rows of verification_history
C38_CountEqualsHistoryRows ==
  (\A r \in AgentRunIds : agentRuns[r].pc = "idle")
     => agentState.verifications_count = Len(verification_history)

\* C39: every verification recorded in verification_history came in through a
\* request that passed the payment check
C39_EveryVerificationPassedPaymentCheck ==
  \A n \in 1..Len(agentServed) : agentServed[n].checked

\* C40: every task stored by the schedule endpoint eventually leaves the
\* pending status
C40_PendingTaskIsEventuallyRun ==
  \A i \in 1..Len(TaskIds) :
     (scheduled_tasks[i].status = "pending")
        ~> (scheduled_tasks[i].status \in {"completed", "failed"})

====
